---- MODULE Spec2Model ----
(***************************************************************************)
(* Model of the SWF extraction pipeline of src/src/tools/extractor.ts:     *)
(* extractSWFContent (the JPEXS decompiler supervisor), the FFmpeg audio   *)
(* fallback extractAudioWithFFmpeg, the coordinator extractSWF and the     *)
(* content reconciler analyzeExtractedContent.                             *)
(*                                                                         *)
(* File names, stderr chunks and error messages are sequences (of          *)
(* characters, resp. of words) so that the suffix tests, the regular       *)
(* expressions and String.includes of the source are computed, not         *)
(* assumed.                                                                *)
(***************************************************************************)
EXTENDS Integers, Sequences, FiniteSets, TLC

\* ------------------------------------------------------------------------
\* Bounds of the model
\* ------------------------------------------------------------------------

\* frame files 1.png .. MaxFrameNo.png may appear in either layout of an
\* extraction run
MaxFrameNo == 1

\* frame files 1.png .. MaxAnalyzeNo.png may appear in either layout of a
\* tree handed to analyzeExtractedContent
MaxAnalyzeNo == 1

\* analyzeExtractedContent is called up to MaxAnalyzeCalls times on a tree
MaxAnalyzeCalls == 2

\* directories of up to MaxPermN files are listed in every order
MaxPermN == 4

\* the sorted trees hold the frame files 1.png .. N.png for N up to MaxSortN
MaxSortN == 10

\* source sizes run from 0 to MaxSize quarters of a MB (55 MB)
MaxSize == 220

\* manual timeouts run from 0 to MaxOverride minutes
MaxOverride == 2

\* frame caps run from 0 to MaxTestFrames
MaxTestFrames == 2

\* an input directory holds up to MaxBatchFiles SWF files of its own, and
\* one more in a subdirectory
MaxBatchFiles == 3

\* ------------------------------------------------------------------------
\* Strings as sequences
\* ------------------------------------------------------------------------

Digits == <<"0", "1", "2", "3", "4", "5", "6", "7", "8", "9">>

\* decimal representation of a natural number, as a sequence of characters
RECURSIVE ToDigits(_)
ToDigits(n) ==
  IF n < 10 THEN <<Digits[n + 1]>>
  ELSE ToDigits(n \div 10) \o <<Digits[(n % 10) + 1]>>

LowerCaseLetters ==
  <<"a", "b", "c", "d", "e", "f", "g", "h", "i", "j", "k", "l", "m",
    "n", "o", "p", "q", "r", "s", "t", "u", "v", "w", "x", "y", "z">>
UpperCaseLetters ==
  <<"A", "B", "C", "D", "E", "F", "G", "H", "I", "J", "K", "L", "M",
    "N", "O", "P", "Q", "R", "S", "T", "U", "V", "W", "X", "Y", "Z">>

\* String.prototype.toLowerCase, one character
LowerChar(c) ==
  IF \E i \in 1..26 : UpperCaseLetters[i] = c
  THEN LowerCaseLetters[CHOOSE i \in 1..26 : UpperCaseLetters[i] = c]
  ELSE c

ToLowerCase(s) == [i \in 1..Len(s) |-> LowerChar(s[i])]

\* String.prototype.endsWith
EndsWith(s, suffix) ==
  /\ Len(s) >= Len(suffix)
  /\ SubSeq(s, Len(s) - Len(suffix) + 1, Len(s)) = suffix

\* String.prototype.includes, on sequences
Includes(s, sub) ==
  \E i \in 0..(Len(s) - Len(sub)) : SubSeq(s, i + 1, i + Len(sub)) = sub

DotPng == <<".", "p", "n", "g">>

\* the regular expression /\.png$/i of the frame check of extractSWF
MatchesPngRegex(f) ==
  /\ Len(f) >= 4
  /\ f[Len(f) - 3] = "."
  /\ f[Len(f) - 2] \in {"p", "P"}
  /\ f[Len(f) - 1] \in {"n", "N"}
  /\ f[Len(f)] \in {"g", "G"}

\* a filter that takes the extension as it is written
IsPngFileCaseSensitive(f) == EndsWith(f, DotPng)

\* file.toLowerCase().endsWith('.png') of analyzeExtractedContent
IsPngFile(f) == EndsWith(ToLowerCase(f), DotPng)

\* ------------------------------------------------------------------------
\* Paths
\* ------------------------------------------------------------------------

OutputDir == <<"o", "u", "t">>

\* path.join(dir, file)
Join(dir, file) == dir \o <<"/">> \o file

FramesDir == Join(OutputDir, <<"f", "r", "a", "m", "e", "s">>)
SoundsDir == Join(OutputDir, <<"s", "o", "u", "n", "d", "s">>)

\* path.basename(p): what follows the last separator
Basename(p) ==
  LET seps == {i \in 1..Len(p) : p[i] = "/"}
  IN IF seps = {} THEN p
     ELSE SubSeq(p, (CHOOSE i \in seps : \A j \in seps : j <= i) + 1, Len(p))

\* path.extname(file): from the last dot, unless the name starts with it
Extname(file) ==
  LET dots == {i \in 2..Len(file) : file[i] = "."}
  IN IF dots = {} THEN << >>
     ELSE SubSeq(file, CHOOSE i \in dots : \A j \in dots : j <= i, Len(file))

\* ------------------------------------------------------------------------
\* The files of the model
\* ------------------------------------------------------------------------

PngName(n) == ToDigits(n) \o DotPng

\* a file that is not a frame
NotAFrame == <<"a", ".", "t", "x", "t">>

\* files that may appear in frames/ during a run
SubNames == {PngName(n) : n \in 1..MaxFrameNo}

\* files that may appear in the output root during a run
RootNames == SubNames \cup {NotAFrame}

\* an upper-case extension and a number that sorts differently as text
UpperPng == <<"1", "0", ".", "P", "N", "G">>

\* files of frames/ in a tree handed to analyzeExtractedContent
AnalyzeSubNames == {PngName(n) : n \in 1..MaxAnalyzeNo} \cup {UpperPng}

FallbackAudio == <<"0", ".", "m", "p", "3">>
WavAudio == <<"1", ".", "w", "a", "v">>

\* names that may appear in sounds/
AudioNames == {FallbackAudio, WavAudio}

\* A file of sounds/ holds nothing at all ("absent"), zero bytes ("empty"),
\* or data written before the run ("old"), by the decompiler ("jpexs") or
\* by FFmpeg ("ffmpeg").

\* ------------------------------------------------------------------------
\* Output of the two engines, as sequences of words
\* ------------------------------------------------------------------------

InputMissingMsg == <<"Input", "SWF", "file", "does", "not", "exist">>
BadArgsMsg == <<"Bad", "Commandline", "Arguments">>

\* the stderr classification of extractSWFContent
IsFatalStderr(data) ==
  Includes(data, InputMissingMsg) \/ Includes(data, BadArgsMsg)

\* chunks the decompiler may write to stderr
StderrChunks ==
  { <<"Error", ":">> \o InputMissingMsg,
    BadArgsMsg,
    <<"WARNING", "font", "not", "found">>,
    <<"Input", "SWF", "file">>,
    <<"does", "not", "exist">> }

SevereMsg == <<"SEVERE:", "Error", "during", "tag", "reading">>

\* messages the onStdout callback of extractSWF does not log
IsSuppressed(data) ==
  \/ Includes(data, <<"EndOfStreamException:", "Premature", "end", "of", "the",
                      "stream", "reached">>)
  \/ Includes(data, SevereMsg)

\* the regular expression /^Exported frame (\d+)\/(\d+)$/
IsFrameProgress(data) ==
  /\ Len(data) = 3
  /\ data[1] = "Exported"
  /\ data[2] = "frame"
  /\ data[3] \in {"1/2", "2/2"}

\* chunks the decompiler may write to stdout
StdoutChunks ==
  { <<"Exported", "frame", "1/2">>,
    <<"Exporting", "sounds">>,
    SevereMsg,
    << >> }

OutputEmptyMsg == <<"Output", "file", "is", "empty">>
NoStreamMsg == <<"does", "not", "contain", "any", "stream">>

\* a no-audio test that knows the empty-output message only
IsEmptyOutputError(message) == Includes(message, OutputEmptyMsg)

\* the no-audio test of the error handler of extractAudioWithFFmpeg
IsNoAudioError(message) ==
  Includes(message, OutputEmptyMsg) \/ Includes(message, NoStreamMsg)

ExitedPrefix == <<"ffmpeg", "exited", "with", "code", "1:">>

ErrEmptyOutput == ExitedPrefix \o OutputEmptyMsg \o <<"nothing", "was", "encoded">>
ErrNoStream == ExitedPrefix \o <<"Output", "file", "#0">> \o NoStreamMsg
ErrInvalidData == ExitedPrefix \o <<"Invalid", "data", "found">>
ErrSpawn == <<"spawn", "ffmpeg", "ENOENT">>

\* error messages fluent-ffmpeg may report for a source file that exists
FFmpegErrors ==
  {ErrEmptyOutput, ErrNoStream, ErrInvalidData, ErrSpawn,
   ExitedPrefix \o <<"output", "file", "is", "empty">>}

\* ------------------------------------------------------------------------
\* The frame order of analyzeExtractedContent
\* ------------------------------------------------------------------------

IsDigit(c) == \E i \in 1..10 : Digits[i] = c

\* name.match(/(\d+)/): the first maximal run of digits, << >> without one
FirstDigitRun(name) ==
  LET starts == {i \in 1..Len(name) : IsDigit(name[i])}
  IN IF starts = {} THEN << >>
     ELSE LET first == CHOOSE i \in starts : \A j \in starts : i <= j
              ends == {i \in first..Len(name) :
                         /\ \A j \in first..i : IsDigit(name[j])
                         /\ i = Len(name) \/ ~IsDigit(name[i + 1])}
              last == CHOOSE i \in ends : TRUE
          IN SubSeq(name, first, last)

\* parseInt of a run of digits
RECURSIVE ParseInt(_)
ParseInt(ds) ==
  IF ds = << >> THEN 0
  ELSE 10 * ParseInt(SubSeq(ds, 1, Len(ds) - 1))
         + (CHOOSE i \in 1..10 : Digits[i] = ds[Len(ds)]) - 1

\* the place of a character in the order of the default collation:
\* punctuation, digits, letters
PrimaryWeight(c) ==
  LET order == <<"_", "-", ".", "/", "#", ":">> \o Digits \o LowerCaseLetters
      l == LowerChar(c)
  IN CHOOSE i \in 1..Len(order) : order[i] = l

\* a.localeCompare(b): first by the primary weights (case ignored, a proper
\* prefix first), then lower case before upper case at the first difference
LocaleCompare(a, b) ==
  LET common == IF Len(a) < Len(b) THEN Len(a) ELSE Len(b)
      diffs == {i \in 1..common : PrimaryWeight(a[i]) # PrimaryWeight(b[i])}
      cases == {i \in 1..common : a[i] # b[i]}
  IN IF diffs # {}
     THEN LET i == CHOOSE k \in diffs : \A j \in diffs : k <= j
          IN IF PrimaryWeight(a[i]) < PrimaryWeight(b[i]) THEN -1 ELSE 1
     ELSE IF Len(a) # Len(b)
     THEN IF Len(a) < Len(b) THEN -1 ELSE 1
     ELSE IF cases # {}
     THEN LET i == CHOOSE k \in cases : \A j \in cases : k <= j
          IN IF LowerChar(b[i]) # b[i] THEN -1 ELSE 1
     ELSE 0

\* a comparator that compares the paths as strings
CompareFramesByName(a, b) == LocaleCompare(a, b)

\* the comparator handed to frameFiles.sort
CompareFrames(a, b) ==
  LET aMatch == FirstDigitRun(Basename(a))
      bMatch == FirstDigitRun(Basename(b))
  IN IF aMatch # << >> /\ bMatch # << >>
     THEN ParseInt(aMatch) - ParseInt(bMatch)
     ELSE LocaleCompare(a, b)

Reverse(s) == [i \in 1..Len(s) |-> s[Len(s) + 1 - i]]

\* length of the run the array starts with (ascending, or strictly
\* descending when the second element is below the first)
RECURSIVE RunLength(_, _, _)
RunLength(arr, idx, descending) ==
  IF idx > Len(arr) THEN Len(arr)
  ELSE LET order == CompareFrames(arr[idx], arr[idx - 1])
       IN IF (descending /\ order >= 0) \/ (~descending /\ order < 0)
          THEN idx - 1
          ELSE RunLength(arr, idx + 1, descending)

\* binary search of the insertion point of pivot in arr[left+1 .. right]
RECURSIVE InsertionPoint(_, _, _, _)
InsertionPoint(arr, pivot, left, right) ==
  IF left >= right THEN left
  ELSE LET mid == left + ((right - left) \div 2)
       IN IF CompareFrames(pivot, arr[mid + 1]) < 0
          THEN InsertionPoint(arr, pivot, left, mid)
          ELSE InsertionPoint(arr, pivot, mid + 1, right)

\* binary insertion of the elements after the first start ones
RECURSIVE BinaryInsertionSort(_, _)
BinaryInsertionSort(arr, start) ==
  IF start >= Len(arr) THEN arr
  ELSE LET pivot == arr[start + 1]
           left == InsertionPoint(arr, pivot, 0, start)
           moved == SubSeq(arr, 1, left) \o <<pivot>>
                      \o SubSeq(arr, left + 1, start)
                      \o SubSeq(arr, start + 2, Len(arr))
       IN BinaryInsertionSort(moved, start + 1)

\* Array.prototype.sort with CompareFrames, as the engine sorts an array
\* shorter than one minimal run: it takes the run the array starts with,
\* reversed when descending, and inserts the remaining elements into it
SortFrames(arr) ==
  IF Len(arr) < 2 THEN arr
  ELSE LET descending == CompareFrames(arr[2], arr[1]) < 0
           run == RunLength(arr, 3, descending)
           made == IF descending
                   THEN Reverse(SubSeq(arr, 1, run)) \o SubSeq(arr, run + 1, Len(arr))
                   ELSE arr
       IN BinaryInsertionSort(made, run)

\* the orders in which fs.readdirSync may list a set of files
RECURSIVE Listings(_)
Listings(files) ==
  IF files = {} THEN {<< >>}
  ELSE UNION {{<<f>> \o rest : rest \in Listings(files \ {f})} : f \in files}

\* the files of a directory in the order of their names
RECURSIVE ByName(_)
ByName(files) ==
  IF files = {} THEN << >>
  ELSE LET first == CHOOSE f \in files :
                      \A g \in files : LocaleCompare(f, g) <= 0
       IN <<first>> \o ByName(files \ {first})

\* the orders in which fs.readdirSync is taken to list a directory: every
\* order for up to MaxPermN files; for more files the order of the names,
\* its reverse, their rotations, and the order of the names with two files
\* exchanged
ReaddirOrders(files) ==
  IF Cardinality(files) <= MaxPermN THEN Listings(files)
  ELSE LET named == ByName(files)
           n == Len(named)
           Rotate(s, k) == [i \in 1..n |-> s[((i + k - 1) % n) + 1]]
           Swap(s, j, k) == [i \in 1..n |-> IF i = j THEN s[k]
                                             ELSE IF i = k THEN s[j] ELSE s[i]]
       IN {Rotate(named, k) : k \in 0..(n - 1)}
          \cup {Rotate(Reverse(named), k) : k \in 0..(n - 1)}
          \cup {Swap(named, j, k) : j \in 1..n, k \in 1..n}

\* ------------------------------------------------------------------------
\* State
\* ------------------------------------------------------------------------

VARIABLES
  swfExists,          \* input: fs.existsSync(swfFile)
  timeoutMinutes,     \* input: the timeoutMinutes argument, << >> when not
                      \* given, <<n>> when given as n
  testFrames,         \* input: the testFrames option, << >> when not given
  swfSize,            \* input: fs.statSync(swfFile).size, in quarters of a MB
  ffmpegInitialized,  \* module constant ffmpegInitialized
  pc,                 \* where extractSWF stands
  outcome,            \* how the promise of extractSWF settled
  jpexsSucceeded,     \* local of extractSWF
  lastOutputWasFrameProgress, \* local of extractSWF
  timer,              \* the decompiler timeout of extractSWF
  graceTimer,         \* the 5 second timer armed by the timeout callback
  hasFrames,          \* local of extractSWF: "yes", "no", "unset" before the
                      \* frame check
  stepEnd,            \* what settled the decompiler promise
  fatalSeen,          \* a fatal stderr chunk has reached onError before extractSWF settled
  streamFatal,        \* extractSWF waits for the decompiler, whose stderr
                      \* stream so far contains a fatal message
  stderrTail,         \* while it waits: the end of that stream, where it
                      \* begins a fatal message
  proc,               \* the java child process
  killed,             \* ChildProcess.killed
  signals,            \* signals delivered to the process
  spawnArgs,          \* << >>, then the arguments java was spawned with
  ignoresTerm,        \* the process does not exit on SIGTERM
  fallback,           \* the FFmpeg fallback: none, running, writing (output
                      \* file opened), resolved, rejected
  ffmpegEvent,        \* the event that settled the FFmpeg command
  dirs,               \* directories that exist: out, out/frames, out/sounds
  numberedDirs,       \* subdirectories out/frames/0 .. out/frames/9
  framesSub,          \* files of out/frames
  framesRoot,         \* files of out (directories excluded)
  sounds,             \* files of out/sounds and what they hold
  finalTimeoutMs,     \* local of extractSWF: the delay of the decompiler
                      \* timeout, 0 before it is computed
  listing,            \* the orders in which readdirSync listed frames/, the
                      \* output root and sounds/ at the last analysis, kept
                      \* where the analysis may be called again
  analyzeCalls,       \* calls of analyzeExtractedContent so far
  manifest,           \* last result of analyzeExtractedContent
  platformFfmpeg,     \* detectSWFFrameRate: platformStatus.ffmpeg is a path
  report,             \* what ffmpeg -i prints on stderr for the source
  stderrData,         \* detectSWFFrameRate: the stderr text gathered so far
  timeoutId,          \* detectSWFFrameRate: the 30 second timer
  ffmpegProcess,      \* detectSWFFrameRate: the ffmpeg -i child process
  detectKilled,       \* a signal was sent to the ffmpeg -i process
  detectOutcome,      \* the promise of detectSWFFrameRate
  detectResult,       \* << >> while pending, then <<value>>
  detectCause,        \* what settled the promise of detectSWFFrameRate
  framerate,          \* convertSWF: options.framerate
  keepExtracted,      \* convertSWF: options.keepExtracted
  convertPc,          \* where convertSWF stands, "idle" when it is not run
  detectedFrameRate,  \* convertSWF: << >>, then <<the value awaited>>
  actualFrameRate,    \* convertSWF: << >>, then <<the rate chosen>>
  assembledAt,        \* << >>, then <<the rate handed to convertFramesToMP4>>
  assembleOutcome,    \* the promise of convertFramesToMP4
  probed,             \* convertFramesToMP4 has made the write test of the
                      \* directory of the output file
  command,            \* << >>, then <<the FFmpeg command that was run>>
  convertError,       \* the step whose error convertSWF rejects with
  convertOutcome,     \* the promise of convertSWF
  cleanDir,           \* removeDirectory: the directory whose loop runs
  rootTodo,           \* removeDirectory(tempDir): entries listed, not yet removed
  subTodo,            \* removeDirectory(subdirectory): the same
  batchCommand,       \* cli: "extract" or "convert"
  batchHelp,          \* cli: options.help
  platformStatus,     \* cli: validatePlatformSupport().java for extract,
                      \* .isFullySupported for convert
  batchInput,         \* cli: what the input argument names on the disk
  recursive,          \* cli: options.recursive
  outputOption,       \* cli: options.output is given (as the directory out)
  batchPc,            \* where the command action stands, "idle" when no
                      \* command is run
  swfFiles,           \* cli: the result of findSWFFiles
  calls,              \* cli: the calls of extractSWF or convertSWF made so
                      \* far, with the file and the state of the promise
  results,            \* cli: results
  exitCode            \* << >>, then <<the status the command ended with>>

inputVars == <<swfExists, timeoutMinutes, testFrames, swfSize, ffmpegInitialized>>
procVars == <<proc, killed, signals, ignoresTerm, spawnArgs>>
fsVars == <<dirs, numberedDirs, framesSub, framesRoot, sounds>>
runVars == <<pc, outcome, jpexsSucceeded, lastOutputWasFrameProgress, timer,
             graceTimer, hasFrames, stepEnd, fatalSeen, streamFatal, stderrTail, fallback, ffmpegEvent>>

extractVars == <<inputVars, procVars, fsVars, runVars, finalTimeoutMs, listing,
                analyzeCalls, manifest>>
detectVars == <<platformFfmpeg, report, stderrData, timeoutId, ffmpegProcess,
               detectKilled, detectOutcome, detectResult, detectCause>>

\* what convertFramesToMP4 sets
assemblyVars == <<assembledAt, assembleOutcome, probed, command>>

convertVars == <<framerate, keepExtracted, convertPc, detectedFrameRate,
                actualFrameRate, assemblyVars, convertError, convertOutcome,
                cleanDir, rootTodo, subTodo>>

batchVars == <<batchCommand, batchHelp, platformStatus, batchInput, recursive,
              outputOption, batchPc, swfFiles, calls, results, exitCode>>

vars == <<extractVars, detectVars, convertVars, batchVars>>

NoRootTodo == [files |-> {}, dirs |-> {}]
NoSubTodo == [files |-> {}, numbered |-> FALSE]

\* no command of the cli is run
BatchIdle ==
  /\ batchCommand = "extract"
  /\ batchHelp = FALSE
  /\ platformStatus = TRUE
  /\ batchInput = [kind |-> "missing", ext |-> << >>, files |-> {}]
  /\ recursive = FALSE
  /\ outputOption = FALSE
  /\ batchPc = "idle"
  /\ swfFiles = << >>
  /\ calls = << >>
  /\ results = [successful |-> 0, failed |-> 0, errors |-> << >>]
  /\ exitCode = << >>

\* convertSWF is not run: extractSWF is called by another caller
ConvertIdle ==
  /\ framerate = 30
  /\ keepExtracted = TRUE
  /\ convertPc = "idle"
  /\ detectedFrameRate = << >>
  /\ actualFrameRate = << >>
  /\ assembledAt = << >>
  /\ assembleOutcome = "idle"
  /\ probed = FALSE
  /\ command = << >>
  /\ convertError = "none"
  /\ convertOutcome = "idle"
  /\ cleanDir = "none"
  /\ rootTodo = NoRootTodo
  /\ subTodo = NoSubTodo

\* detectSWFFrameRate has not been called
DetectIdle ==
  /\ platformFfmpeg = ffmpegInitialized
  /\ report = << >>
  /\ stderrData = << >>
  /\ timeoutId = "unset"
  /\ ffmpegProcess = "null"
  /\ detectKilled = FALSE
  /\ detectOutcome = "idle"
  /\ detectResult = << >>
  /\ detectCause = "none"

NoEvent == <<"none">>
EndEvent == <<"end">>

\* no directory has been listed yet
NoListing == <<<< >>, << >>, << >>>>

\* the size of the source in the runs of Spec: 2 MB
RunSize == 8

NoManifest == [framesDir |-> "none", frameFiles |-> << >>,
               audioFiles |-> << >>, frameCount |-> 0]

\* no file in sounds/
NoSounds == [a \in AudioNames |-> "absent"]

Init ==
  /\ swfExists \in BOOLEAN
  /\ timeoutMinutes \in {<< >>, <<1>>}
  /\ testFrames = << >>
  /\ swfSize = IF swfExists THEN RunSize ELSE 0
  /\ ffmpegInitialized \in BOOLEAN
  /\ pc = "init"
  /\ outcome = "pending"
  /\ jpexsSucceeded = FALSE
  /\ lastOutputWasFrameProgress = FALSE
  /\ timer = "unset"
  /\ graceTimer = "unset"
  /\ hasFrames = "unset"
  /\ stepEnd = "none"
  /\ fatalSeen = FALSE
  /\ BatchIdle
  /\ streamFatal = FALSE
  /\ stderrTail = << >>
  /\ proc = "null"
  /\ killed = FALSE
  /\ signals = {}
  /\ ignoresTerm = FALSE
  /\ spawnArgs = << >>
  /\ fallback = "none"
  /\ ffmpegEvent = NoEvent
  /\ dirs \in {{}, {"out"}, {"out", "frames"}, {"out", "sounds"},
               {"out", "frames", "sounds"}}
  /\ numberedDirs = {}
  /\ framesSub \in IF "frames" \in dirs THEN SUBSET SubNames ELSE {{}}
  /\ framesRoot \in IF "out" \in dirs THEN SUBSET RootNames ELSE {{}}
  /\ sounds \in IF "sounds" \in dirs
                THEN {s \in [AudioNames -> {"absent", "old"}] :
                        s[WavAudio] = "absent"}
                ELSE {NoSounds}
  /\ finalTimeoutMs = 0
  /\ listing = NoListing
  /\ analyzeCalls = 0
  /\ DetectIdle
  /\ ConvertIdle
  /\ manifest = NoManifest

\* ------------------------------------------------------------------------
\* extractSWF: the code between two awaits
\* ------------------------------------------------------------------------

\* fs.existsSync(framesDir) && readdirSync(framesDir).filter(/\.png$/i).length > 0
HasFramesInSubdir ==
  "frames" \in dirs /\ {f \in framesSub : MatchesPngRegex(f)} # {}

\* fs.existsSync(outputDir) && readdirSync(outputDir).filter(/\.png$/i).length > 0
HasFramesInRoot ==
  "out" \in dirs /\ {f \in framesRoot : MatchesPngRegex(f)} # {}

\* a frame check that fails every run whose decompiler did not close
FrameCheckIgnoringFrames(succeeded) ==
  /\ hasFrames' = IF HasFramesInSubdir \/ HasFramesInRoot THEN "yes" ELSE "no"
  /\ outcome' = IF ~succeeded THEN "rejected" ELSE "resolved"
  /\ pc' = "done"

\* the frame check that ends extractSWF; succeeded is jpexsSucceeded as the
\* check reads it
FrameCheck(succeeded) ==
  /\ hasFrames' = IF HasFramesInSubdir \/ HasFramesInRoot THEN "yes" ELSE "no"
  /\ outcome' = IF ~succeeded /\ hasFrames' = "no" THEN "rejected" ELSE "resolved"
  /\ pc' = "done"

\* from the settled decompiler promise to the next await: the audio check
\* and the call of extractAudioWithFFmpeg, which rejects at once when FFmpeg
\* is not initialized (the rejection is caught and the frame check follows
\* in the same turn) and otherwise creates sounds/ and starts FFmpeg
StartFallback(succeeded) ==
  IF ffmpegInitialized
  THEN /\ pc' = "fallback"
       /\ fallback' = "running"
       /\ dirs' = dirs \cup {"out", "sounds"}
       /\ UNCHANGED <<hasFrames, outcome>>
  ELSE /\ fallback' = "rejected"
       /\ FrameCheck(succeeded)
       /\ UNCHANGED dirs

\* resolve() of the decompiler promise, called by onError and onClose with
\* the value jpexsSucceeded has when the callback returns
ResolveStep(succeeded, by) ==
  IF pc = "jpexs"
  THEN /\ stepEnd' = by
       /\ StartFallback(succeeded)
  ELSE UNCHANGED <<pc, fallback, dirs, hasFrames, outcome, stepEnd>>

\* callbacks.onError of extractSWF
OnError ==
  /\ timer' = IF timer = "armed" THEN "cleared" ELSE timer
  /\ UNCHANGED jpexsSucceeded
  /\ ResolveStep(jpexsSucceeded, "error")

\* callbacks.onClose of extractSWF
OnClose ==
  /\ timer' = IF timer = "armed" THEN "cleared" ELSE timer
  /\ jpexsSucceeded' = TRUE
  /\ ResolveStep(TRUE, "close")

\* callbacks.onStdout of extractSWF
OnStdout(data) ==
  lastOutputWasFrameProgress' =
    IF data = << >> \/ IsSuppressed(data) THEN lastOutputWasFrameProgress
    ELSE IsFrameProgress(data)

\* ------------------------------------------------------------------------
\* extractSWF up to its first await, with the call of extractSWFContent
\* ------------------------------------------------------------------------

\* if (timeoutMinutes): an argument that was given and is not 0
HasOverride == timeoutMinutes # << >> /\ timeoutMinutes[1] # 0

\* Sizes are counted in quarters of a MB and the minutes of the size-based
\* computation in eighths of a minute, which keeps the halves exact.
Max(a, b) == IF a >= b THEN a ELSE b

\* Math.round of a number of eighths that is not negative
MathRound(eighths) == (eighths + 4) \div 8

\* a size-based timeout whose first supplement replaces the sum so far
DynamicTimeoutMinutesOverwritten(size) ==
  LET base == 80 + 2 * size
      above20 == IF size > 80
                 THEN size - 80 ELSE base
      above50 == IF size > 200
                 THEN above20 + (size - 200) ELSE above20
  IN Max(10, MathRound(above50))

\* a size-based timeout without the supplement above 50 MB
DynamicTimeoutMinutesOneStep(size) ==
  LET base == 80 + 2 * size
      above20 == IF size > 80
                 THEN base + (size - 80) ELSE base
  IN Max(10, MathRound(above20))

\* finalTimeoutMinutes of the else branch: calculatedTimeout starts at
\* 10 + fileSizeMB, grows by (fileSizeMB - 20) * 0.5 above 20 MB and by
\* (fileSizeMB - 50) * 0.5 above 50 MB, and is rounded and floored at 10
DynamicTimeoutMinutes(size) ==
  LET base == 80 + 2 * size
      above20 == IF size > 80
                 THEN base + (size - 80) ELSE base
      above50 == IF size > 200
                 THEN above20 + (size - 200) ELSE above20
  IN Max(10, MathRound(above50))

\* a timeout that takes the size-based value whatever the argument
FinalTimeoutMsIgnoringOverride(override, size) ==
  DynamicTimeoutMinutes(size) * 60000

\* finalTimeoutMs as extractSWF computes it before arming the timer
FinalTimeoutMs(override, size) ==
  IF override # << >> /\ override[1] # 0
  THEN override[1] * 60000
  ELSE DynamicTimeoutMinutes(size) * 60000

\* fs.statSync(swfFile) throws for a missing file: extractSWF rejects
StartStatFails ==
  /\ pc = "init"
  /\ convertPc # "detect"
  /\ ~HasOverride
  /\ ~swfExists
  /\ pc' = "done"
  /\ outcome' = "rejected"
  /\ UNCHANGED <<batchVars, convertVars, detectVars, inputVars, finalTimeoutMs, listing, analyzeCalls, procVars, fsVars, manifest, jpexsSucceeded,
                 lastOutputWasFrameProgress, timer, graceTimer, hasFrames,
                 stepEnd, fatalSeen, streamFatal, stderrTail, fallback, ffmpegEvent>>

\* extractSWFContent finds no source file: it calls onError and returns null
\* before any directory is made; the timer armed just before is cleared
StartNoSource ==
  /\ pc = "init"
  /\ convertPc # "detect"
  /\ HasOverride
  /\ ~swfExists
  /\ finalTimeoutMs' = FinalTimeoutMs(timeoutMinutes, swfSize)
  /\ timer' = "cleared"
  /\ stepEnd' = "error"
  /\ StartFallback(jpexsSucceeded)
  /\ UNCHANGED <<batchVars, convertVars, detectVars, inputVars, listing, analyzeCalls, procVars, manifest, jpexsSucceeded,
                 lastOutputWasFrameProgress, graceTimer, fatalSeen, streamFatal, stderrTail,
                 ffmpegEvent, numberedDirs, framesSub, framesRoot, sounds>>

\* parameters that put the frame selection after the export
BuildExtractionParametersSelectLast(cap) ==
  <<<<"-jar">>, <<"ffdec.jar">>, <<"-export">>, <<"frame,sound">>>>
    \o (IF cap # << >> /\ cap[1] # 0
        THEN <<<<"-select">>, <<"1", "-">> \o ToDigits(cap[1])>> ELSE << >>)
    \o <<OutputDir, <<"source.swf">>>>

\* buildExtractionParameters(options), every argument a sequence of
\* strings; options.testFrames is cap, the archive is ffdec.jar, the source
\* is source.swf
BuildExtractionParameters(cap) ==
  <<<<"-jar">>, <<"ffdec.jar">>>>
    \o (IF cap # << >> /\ cap[1] # 0
        THEN <<<<"-select">>, <<"1", "-">> \o ToDigits(cap[1])>> ELSE << >>)
    \o <<<<"-export">>, <<"frame,sound">>, OutputDir, <<"source.swf">>>>

\* extractSWFContent makes the directories and spawns java; the spawn may
\* fail (java missing), which Node reports by an error event later
StartSpawn ==
  /\ pc = "init"
  /\ convertPc # "detect"
  /\ swfExists
  /\ dirs' = {"out", "frames", "sounds"}
  /\ numberedDirs' = 0..9
  /\ \E spawned \in BOOLEAN, stubborn \in BOOLEAN :
       /\ proc' = IF spawned THEN "running" ELSE "spawnFailed"
       /\ ignoresTerm' = (spawned /\ stubborn)
  /\ spawnArgs' = BuildExtractionParameters(testFrames)
  /\ finalTimeoutMs' = FinalTimeoutMs(timeoutMinutes, swfSize)
  /\ timer' = "armed"
  /\ pc' = "jpexs"
  /\ UNCHANGED <<batchVars, convertVars, detectVars, inputVars, listing, analyzeCalls, killed, signals, manifest, outcome, jpexsSucceeded,
                 lastOutputWasFrameProgress, graceTimer, hasFrames, stepEnd,
                 fatalSeen, streamFatal, stderrTail, fallback, ffmpegEvent, framesSub, framesRoot, sounds>>

\* ------------------------------------------------------------------------
\* The decompiler process and the listeners of extractSWFContent
\* ------------------------------------------------------------------------

\* the decompiler writes a file into frames/ or into the output root (the
\* output tree is followed until the manifest is taken)
ProcWriteFrame ==
  /\ proc = "running"
  /\ pc # "analyzed"
  /\ \/ \E f \in SubNames :
          /\ "frames" \in dirs
          /\ f \notin framesSub
          /\ framesSub' = framesSub \cup {f}
          /\ UNCHANGED framesRoot
     \/ \E f \in RootNames :
          /\ "out" \in dirs
          /\ f \notin framesRoot
          /\ framesRoot' = framesRoot \cup {f}
          /\ UNCHANGED framesSub
  /\ UNCHANGED <<batchVars, convertVars, detectVars, inputVars, finalTimeoutMs, listing, analyzeCalls, procVars, runVars, manifest, dirs, numberedDirs, sounds>>

\* the decompiler writes a sound file
ProcWriteAudio ==
  /\ proc = "running"
  /\ pc # "analyzed"
  /\ "sounds" \in dirs
  /\ \E a \in AudioNames :
       /\ sounds[a] # "jpexs"
       /\ sounds' = [sounds EXCEPT ![a] = "jpexs"]
  /\ UNCHANGED <<batchVars, convertVars, detectVars, inputVars, finalTimeoutMs, listing, analyzeCalls, procVars, runVars, manifest, dirs, numberedDirs,
                 framesSub, framesRoot>>

\* javaProcess.stdout.on('data')
ProcStdout ==
  /\ proc = "running"
  /\ \E data \in StdoutChunks : OnStdout(data)
  /\ UNCHANGED <<batchVars, convertVars, detectVars, inputVars, finalTimeoutMs, listing, analyzeCalls, procVars, fsVars, manifest, pc, outcome,
                 jpexsSucceeded, timer, graceTimer, hasFrames, stepEnd,
                 fatalSeen, streamFatal, stderrTail, fallback, ffmpegEvent>>

\* javaProcess.stderr.on('data'): a fatal chunk goes to onError, any other
\* chunk to onStdout
ProcStderr ==
  /\ proc = "running"
  /\ \E data \in StderrChunks :
       /\ IF IsFatalStderr(data)
          THEN /\ OnError
               /\ fatalSeen' = (fatalSeen \/ pc \notin {"done", "analyzed"})
               /\ UNCHANGED lastOutputWasFrameProgress
          ELSE /\ OnStdout(data)
               /\ UNCHANGED <<pc, outcome, jpexsSucceeded, timer, hasFrames,
                              stepEnd, fatalSeen, fallback, dirs>>
       /\ LET stream == stderrTail \o data
              begun == {k \in 0..Len(stream) :
                          \E msg \in {InputMissingMsg, BadArgsMsg} :
                            /\ k < Len(msg)
                            /\ SubSeq(stream, Len(stream) - k + 1, Len(stream))
                                 = SubSeq(msg, 1, k)}
              longest == CHOOSE k \in begun : \A j \in begun : j <= k
          IN IF pc = "jpexs" /\ ~IsFatalStderr(data)
             THEN /\ streamFatal' = (streamFatal \/ IsFatalStderr(stream))
                  /\ stderrTail' = IF streamFatal' THEN << >>
                                   ELSE SubSeq(stream, Len(stream) - longest + 1, Len(stream))
             ELSE /\ streamFatal' = FALSE
                  /\ stderrTail' = << >>
  /\ UNCHANGED <<batchVars, convertVars, detectVars, inputVars, finalTimeoutMs, listing, analyzeCalls, procVars, manifest, graceTimer, ffmpegEvent,
                 numberedDirs, framesSub, framesRoot, sounds>>

\* the process ends by itself
ProcExit ==
  /\ proc = "running"
  /\ proc' = "exited"
  /\ UNCHANGED <<batchVars, convertVars, detectVars, inputVars, finalTimeoutMs, listing, analyzeCalls, killed, signals, ignoresTerm, spawnArgs, fsVars, runVars, manifest>>

\* the process ends because of a signal: always on SIGKILL, on SIGTERM
\* unless it ignores it
ProcDie ==
  /\ proc = "running"
  /\ \/ "SIGKILL" \in signals
     \/ "SIGTERM" \in signals /\ ~ignoresTerm
  /\ proc' = "exited"
  /\ UNCHANGED <<batchVars, convertVars, detectVars, inputVars, finalTimeoutMs, listing, analyzeCalls, killed, signals, ignoresTerm, spawnArgs, fsVars, runVars, manifest>>

\* javaProcess.on('error'): the spawn failed
ProcSpawnError ==
  /\ proc = "spawnFailed"
  /\ proc' = "exited"
  /\ OnError
  /\ UNCHANGED <<batchVars, convertVars, detectVars, inputVars, finalTimeoutMs, listing, analyzeCalls, killed, signals, ignoresTerm, spawnArgs, manifest,
                 lastOutputWasFrameProgress, graceTimer, fatalSeen, streamFatal, stderrTail,
                 ffmpegEvent, numberedDirs, framesSub, framesRoot, sounds>>

\* javaProcess.on('close'): the process has ended and its streams are closed
ProcClose ==
  /\ proc = "exited"
  /\ proc' = "closed"
  /\ OnClose
  /\ streamFatal' = FALSE
  /\ stderrTail' = << >>
  /\ UNCHANGED <<batchVars, convertVars, detectVars, inputVars, finalTimeoutMs, listing, analyzeCalls, killed, signals, ignoresTerm, spawnArgs, manifest,
                 lastOutputWasFrameProgress, graceTimer, fatalSeen,
                 ffmpegEvent, numberedDirs, framesSub, framesRoot, sounds>>

\* ------------------------------------------------------------------------
\* The timeout of extractSWF
\* ------------------------------------------------------------------------

\* jpexsProcess.kill(sig): the signal is sent, and killed set, only while
\* the process exists
Kill(sig) ==
  IF proc = "running"
  THEN /\ killed' = TRUE
       /\ signals' = signals \cup {sig}
  ELSE UNCHANGED <<killed, signals>>

\* a timeout callback that signals the process and leaves the step waiting
TimeoutFiresKillOnly ==
  /\ timer = "armed"
  /\ proc # "spawnFailed"
  /\ timer' = "fired"
  /\ IF proc # "null"
     THEN /\ Kill("SIGTERM")
          /\ graceTimer' = "armed"
     ELSE UNCHANGED <<killed, signals, graceTimer>>
  /\ UNCHANGED <<stepEnd, outcome, pc, streamFatal, stderrTail>>
  /\ UNCHANGED <<batchVars, convertVars, detectVars, inputVars, finalTimeoutMs, listing, analyzeCalls, proc, ignoresTerm, spawnArgs, fsVars, manifest, jpexsSucceeded,
                 lastOutputWasFrameProgress, hasFrames, fatalSeen, fallback,
                 ffmpegEvent>>

\* the timeout callback: SIGTERM, the 5 second timer, reject.  The error
\* event of a failed spawn is queued by process.nextTick and so precedes
\* every timer.
TimeoutFires ==
  /\ timer = "armed"
  /\ proc # "spawnFailed"
  /\ timer' = "fired"
  /\ IF proc # "null"
     THEN /\ Kill("SIGTERM")
          /\ graceTimer' = "armed"
     ELSE UNCHANGED <<killed, signals, graceTimer>>
  /\ stepEnd' = "timeout"
  /\ outcome' = "rejected"
  /\ pc' = "done"
  /\ streamFatal' = FALSE
  /\ stderrTail' = << >>
  /\ UNCHANGED <<batchVars, convertVars, detectVars, inputVars, finalTimeoutMs, listing, analyzeCalls, proc, ignoresTerm, spawnArgs, fsVars, manifest, jpexsSucceeded,
                 lastOutputWasFrameProgress, hasFrames, fatalSeen, fallback,
                 ffmpegEvent>>

\* the callback of the 5 second timer
GraceFires ==
  /\ graceTimer = "armed"
  /\ graceTimer' = "fired"
  /\ IF proc # "null" /\ ~killed
     THEN Kill("SIGKILL")
     ELSE UNCHANGED <<killed, signals>>
  /\ UNCHANGED <<batchVars, convertVars, detectVars, inputVars, finalTimeoutMs, listing, analyzeCalls, proc, ignoresTerm, spawnArgs, fsVars, manifest, pc, outcome,
                 jpexsSucceeded, lastOutputWasFrameProgress, timer, hasFrames,
                 stepEnd, fatalSeen, streamFatal, stderrTail, fallback, ffmpegEvent>>

\* ------------------------------------------------------------------------
\* extractAudioWithFFmpeg
\* ------------------------------------------------------------------------

\* FFmpeg, having read the source, opens sounds/0.mp3 for writing, which
\* truncates an existing file
FFmpegOpenOutput ==
  /\ fallback = "running"
  /\ swfExists
  /\ fallback' = "writing"
  /\ sounds' = [sounds EXCEPT ![FallbackAudio] = "empty"]
  /\ UNCHANGED <<batchVars, convertVars, detectVars, inputVars, finalTimeoutMs, listing, analyzeCalls, procVars, manifest, pc, outcome, jpexsSucceeded,
                 lastOutputWasFrameProgress, timer, graceTimer, hasFrames,
                 stepEnd, fatalSeen, streamFatal, stderrTail, ffmpegEvent, dirs, numberedDirs,
                 framesSub, framesRoot>>

\* FFmpeg copies audio packets into the opened file
FFmpegWriteData ==
  /\ fallback = "writing"
  /\ sounds[FallbackAudio] = "empty"
  /\ sounds' = [sounds EXCEPT ![FallbackAudio] = "ffmpeg"]
  /\ UNCHANGED <<batchVars, convertVars, detectVars, inputVars, finalTimeoutMs, listing, analyzeCalls, procVars, manifest, runVars, dirs, numberedDirs,
                 framesSub, framesRoot>>

\* a fallback whose rejection is not caught
AfterFallbackUncaught ==
  IF fallback' = "rejected"
  THEN /\ outcome' = "rejected"
       /\ pc' = "done"
       /\ UNCHANGED hasFrames
  ELSE FrameCheck(jpexsSucceeded)

\* the rest of extractSWF once the fallback promise has settled: the
\* rejection is caught, the frame check follows
AfterFallback == FrameCheck(jpexsSucceeded)

\* .on('end'): resolve, whether or not the output file exists and has data
FFmpegEnd ==
  /\ fallback \in {"running", "writing"}
  /\ swfExists
  /\ ffmpegEvent' = EndEvent
  /\ fallback' = "resolved"
  /\ AfterFallback
  /\ UNCHANGED <<batchVars, convertVars, detectVars, inputVars, finalTimeoutMs, listing, analyzeCalls, procVars, fsVars, manifest, jpexsSucceeded,
                 lastOutputWasFrameProgress, timer, graceTimer, stepEnd,
                 fatalSeen, streamFatal, stderrTail>>

\* .on('error'): resolve for a no-audio message, reject otherwise
FFmpegError ==
  /\ fallback \in {"running", "writing"}
  /\ \E message \in IF swfExists THEN FFmpegErrors
                    ELSE {ErrSpawn, ExitedPrefix \o <<"No", "such", "file", "or",
                                                       "directory">>} :
       /\ ffmpegEvent' = message
       /\ fallback' = IF IsNoAudioError(message) THEN "resolved" ELSE "rejected"
  /\ AfterFallback
  /\ UNCHANGED <<batchVars, convertVars, detectVars, inputVars, finalTimeoutMs, listing, analyzeCalls, procVars, fsVars, manifest, jpexsSucceeded,
                 lastOutputWasFrameProgress, timer, graceTimer, stepEnd,
                 fatalSeen, streamFatal, stderrTail>>

\* ------------------------------------------------------------------------
\* analyzeExtractedContent
\* ------------------------------------------------------------------------

\* ['.mp3', '.wav', '.flv'].includes(path.extname(file).toLowerCase())
IsAudioFile(file) ==
  ToLowerCase(Extname(file)) \in {<<".", "m", "p", "3">>, <<".", "w", "a", "v">>,
                                  <<".", "f", "l", "v">>}

\* the files readdirSync(soundsDir) lists
SoundFiles == {a \in AudioNames : sounds[a] # "absent"}

\* a choice of layout that gives ties to frames/
UseSubdirOnTie(inSubdir, inRoot) == inSubdir >= inRoot

\* framesInSubdir.length > framesInRoot.length
UseSubdir(inSubdir, inRoot) == inSubdir > inRoot

\* the manifest for one listing order of each of the three directories
AnalyzeResult(subOrder, rootOrder, soundOrder) ==
  LET framesInSubdir == IF "frames" \in dirs THEN SelectSeq(subOrder, IsPngFile)
                        ELSE << >>
      framesInRoot == IF "out" \in dirs THEN SelectSeq(rootOrder, IsPngFile)
                      ELSE << >>
      useSubdir == UseSubdir(Len(framesInSubdir), Len(framesInRoot))
      frameFiles ==
        IF useSubdir
        THEN [i \in 1..Len(framesInSubdir) |-> Join(FramesDir, framesInSubdir[i])]
        ELSE [i \in 1..Len(framesInRoot) |-> Join(OutputDir, framesInRoot[i])]
      sorted == SortFrames(frameFiles)
      audio == IF "sounds" \in dirs THEN SelectSeq(soundOrder, IsAudioFile)
               ELSE << >>
  IN [framesDir |-> IF useSubdir THEN FramesDir ELSE OutputDir,
      frameFiles |-> sorted,
      audioFiles |-> [i \in 1..Len(audio) |-> Join(SoundsDir, audio[i])],
      frameCount |-> Len(sorted)]

\* a call that also removes the empty numbered directories of frames/
AnalyzeCallPruning ==
  /\ outcome = "resolved"
  /\ pc' = "analyzed"
  /\ analyzeCalls' = analyzeCalls + 1
  /\ numberedDirs' = {}
  /\ \E subOrder \in ReaddirOrders(framesSub),
        rootOrder \in ReaddirOrders(framesRoot),
        soundOrder \in ReaddirOrders(SoundFiles) :
       /\ pc = "analyzed" => listing = <<subOrder, rootOrder, soundOrder>>
       /\ listing' = IF convertPc = "idle"
                     THEN <<subOrder, rootOrder, soundOrder>> ELSE NoListing
       /\ manifest' = AnalyzeResult(subOrder, rootOrder, soundOrder)
  /\ UNCHANGED <<batchVars, convertVars, detectVars, inputVars, finalTimeoutMs, procVars,
                 dirs, framesSub, framesRoot, sounds, outcome, jpexsSucceeded,
                 lastOutputWasFrameProgress, timer, graceTimer, hasFrames,
                 stepEnd, fatalSeen, streamFatal, stderrTail, fallback, ffmpegEvent>>

\* a call of analyzeExtractedContent(outputDir): the three directories are
\* listed and the manifest is returned; a tree that has not changed since
\* the last call is listed in the same orders again
AnalyzeCall ==
  /\ outcome = "resolved"
  /\ pc' = "analyzed"
  /\ analyzeCalls' = analyzeCalls + 1
  /\ \E subOrder \in ReaddirOrders(framesSub),
        rootOrder \in ReaddirOrders(framesRoot),
        soundOrder \in ReaddirOrders(SoundFiles) :
       /\ pc = "analyzed" => listing = <<subOrder, rootOrder, soundOrder>>
       /\ listing' = IF convertPc = "idle"
                     THEN <<subOrder, rootOrder, soundOrder>> ELSE NoListing
       /\ manifest' = AnalyzeResult(subOrder, rootOrder, soundOrder)
  /\ UNCHANGED <<batchVars, convertVars, detectVars, inputVars, finalTimeoutMs, procVars,
                 fsVars, outcome, jpexsSucceeded, lastOutputWasFrameProgress,
                 timer, graceTimer, hasFrames, stepEnd, fatalSeen, streamFatal, stderrTail, fallback,
                 ffmpegEvent>>

\* analyzeExtractedContent(outputDir), called once extractSWF has resolved
AnalyzeExtractedContent ==
  /\ pc = "done"
  /\ convertPc \in {"idle", "extract"}
  /\ AnalyzeCall

\* analyzeExtractedContent(outputDir) called again on the same tree
AnalyzeExtractedContentAgain ==
  /\ pc = "analyzed"
  /\ convertPc = "idle"
  /\ analyzeCalls < MaxAnalyzeCalls
  /\ AnalyzeCall

Next ==
  \/ StartStatFails
  \/ StartNoSource
  \/ StartSpawn
  \/ ProcWriteFrame
  \/ ProcWriteAudio
  \/ ProcStdout
  \/ ProcStderr
  \/ ProcExit
  \/ ProcDie
  \/ ProcSpawnError
  \/ ProcClose
  \/ TimeoutFires
  \/ GraceFires
  \/ FFmpegOpenOutput
  \/ FFmpegWriteData
  \/ FFmpegEnd
  \/ FFmpegError
  \/ AnalyzeExtractedContent

Spec == Init /\ [][Next]_vars

\* ------------------------------------------------------------------------
\* analyzeExtractedContent on any output tree
\* ------------------------------------------------------------------------

\* any tree over the analyze names, or an output root with the frames
\* a2.png, ab.png and b1.png, left by an extraction that has resolved:
\* its decompiler closed, or it ended by an error and the frame check
\* found frames
AnalyzeTree ==
  /\ swfExists = TRUE
  /\ timeoutMinutes = << >>
  /\ testFrames = << >>
  /\ swfSize = RunSize
  /\ ffmpegInitialized \in BOOLEAN
  /\ pc = "done"
  /\ outcome = "resolved"
  /\ jpexsSucceeded \in BOOLEAN
  /\ lastOutputWasFrameProgress = FALSE
  /\ timer = "cleared"
  /\ graceTimer = "unset"
  /\ stepEnd = IF jpexsSucceeded THEN "close" ELSE "error"
  /\ fatalSeen = FALSE
  /\ BatchIdle
  /\ streamFatal = FALSE
  /\ stderrTail = << >>
  /\ proc = "closed"
  /\ killed = FALSE
  /\ signals = {}
  /\ ignoresTerm = FALSE
  /\ spawnArgs = BuildExtractionParameters(testFrames)
  /\ fallback = IF ffmpegInitialized THEN "resolved" ELSE "rejected"
  /\ ffmpegEvent = IF ffmpegInitialized THEN EndEvent ELSE NoEvent
  /\ dirs = {"out", "frames", "sounds"}
  /\ numberedDirs = 0..9
  /\ framesSub \in SUBSET AnalyzeSubNames
  /\ framesRoot \in SUBSET (AnalyzeSubNames \cup {NotAFrame})
                       \cup {{<<"a", "2">> \o DotPng, <<"a", "b">> \o DotPng,
                              <<"b", "1">> \o DotPng} \cup numbered
                             : numbered \in SUBSET {PngName(1)}}
  /\ sounds \in [AudioNames -> {"absent", "jpexs"}]
  /\ hasFrames = IF HasFramesInSubdir \/ HasFramesInRoot THEN "yes" ELSE "no"
  /\ jpexsSucceeded \/ hasFrames = "yes"
  /\ finalTimeoutMs = FinalTimeoutMs(timeoutMinutes, swfSize)
  /\ listing = NoListing
  /\ analyzeCalls = 0
  /\ DetectIdle
  /\ manifest = NoManifest

\* the tree is handed to analyzeExtractedContent by a caller other than
\* convertSWF
InitAnalyze == AnalyzeTree /\ ConvertIdle

NextAnalyze ==
  \/ AnalyzeExtractedContent
  \/ AnalyzeExtractedContentAgain

SpecAnalyze == InitAnalyze /\ [][NextAnalyze]_vars

\* ------------------------------------------------------------------------
\* analyzeExtractedContent on the frames 1.png .. N.png
\* ------------------------------------------------------------------------

SortNames(n) == {PngName(i) : i \in 1..n}

\* the frames 1.png .. N.png in one of the two layouts, left by an
\* extraction that has resolved
InitSort ==
  /\ swfExists = TRUE
  /\ timeoutMinutes = << >>
  /\ testFrames = << >>
  /\ swfSize = RunSize
  /\ ffmpegInitialized = FALSE
  /\ pc = "done"
  /\ outcome = "resolved"
  /\ jpexsSucceeded = TRUE
  /\ lastOutputWasFrameProgress = FALSE
  /\ timer = "cleared"
  /\ graceTimer = "unset"
  /\ stepEnd = "close"
  /\ fatalSeen = FALSE
  /\ BatchIdle
  /\ streamFatal = FALSE
  /\ stderrTail = << >>
  /\ proc = "closed"
  /\ killed = FALSE
  /\ signals = {}
  /\ ignoresTerm = FALSE
  /\ spawnArgs = BuildExtractionParameters(testFrames)
  /\ fallback = "rejected"
  /\ ffmpegEvent = NoEvent
  /\ dirs = {"out", "frames", "sounds"}
  /\ numberedDirs = 0..9
  /\ \E n \in 1..MaxSortN, inSubdir \in BOOLEAN :
       /\ framesSub = IF inSubdir THEN SortNames(n) ELSE {}
       /\ framesRoot = IF inSubdir THEN {} ELSE SortNames(n)
  /\ sounds \in [AudioNames -> {"absent", "jpexs"}]
  /\ hasFrames = "yes"
  /\ finalTimeoutMs = FinalTimeoutMs(timeoutMinutes, swfSize)
  /\ listing = NoListing
  /\ analyzeCalls = 0
  /\ DetectIdle
  /\ ConvertIdle
  /\ manifest = NoManifest

NextSort == AnalyzeExtractedContent

SpecSort == InitSort /\ [][NextSort]_vars

\* ------------------------------------------------------------------------
\* extractSWF up to the arming of the decompiler timeout, on any size
\* ------------------------------------------------------------------------

\* the state at the call of extractSWF with no output tree yet
InitRun(sizes, overrides, caps) ==
  /\ swfExists \in BOOLEAN
  /\ timeoutMinutes \in overrides
  /\ testFrames \in caps
  /\ swfSize \in IF swfExists THEN sizes ELSE {0}
  /\ ffmpegInitialized \in BOOLEAN
  /\ pc = "init"
  /\ outcome = "pending"
  /\ jpexsSucceeded = FALSE
  /\ lastOutputWasFrameProgress = FALSE
  /\ timer = "unset"
  /\ graceTimer = "unset"
  /\ hasFrames = "unset"
  /\ stepEnd = "none"
  /\ fatalSeen = FALSE
  /\ streamFatal = FALSE
  /\ stderrTail = << >>
  /\ proc = "null"
  /\ killed = FALSE
  /\ signals = {}
  /\ ignoresTerm = FALSE
  /\ spawnArgs = << >>
  /\ fallback = "none"
  /\ ffmpegEvent = NoEvent
  /\ dirs = {}
  /\ numberedDirs = {}
  /\ framesSub = {}
  /\ framesRoot = {}
  /\ sounds = NoSounds
  /\ finalTimeoutMs = 0
  /\ listing = NoListing
  /\ analyzeCalls = 0
  /\ manifest = NoManifest

\* any size, any argument for timeoutMinutes (none, 0 .. MaxOverride) and
\* any testFrames option (none, 0 .. MaxTestFrames)
InitTimeout ==
  InitRun(0..MaxSize, {<< >>} \cup {<<n>> : n \in 0..MaxOverride},
          {<< >>} \cup {<<n>> : n \in 0..MaxTestFrames})
    /\ BatchIdle /\ DetectIdle /\ ConvertIdle

NextTimeout ==
  \/ StartStatFails
  \/ StartNoSource
  \/ StartSpawn

SpecTimeout == InitTimeout /\ [][NextTimeout]_vars

\* ------------------------------------------------------------------------
\* extractSWF with and without a manual timeout
\* ------------------------------------------------------------------------

\* sources of 2 MB and of 30 MB, any argument for timeoutMinutes
InitOverride ==
  InitRun({RunSize, 120}, {<< >>} \cup {<<n>> : n \in 0..MaxOverride}, {<< >>}) /\ BatchIdle /\ DetectIdle /\ ConvertIdle

\* extractSWF with a decompiler that writes no file
NextOverride ==
  \/ StartStatFails
  \/ StartNoSource
  \/ StartSpawn
  \/ ProcStdout
  \/ ProcStderr
  \/ ProcExit
  \/ ProcDie
  \/ ProcSpawnError
  \/ ProcClose
  \/ TimeoutFires
  \/ GraceFires
  \/ FFmpegOpenOutput
  \/ FFmpegWriteData
  \/ FFmpegEnd
  \/ FFmpegError
  \/ AnalyzeExtractedContent

SpecOverride == InitOverride /\ [][NextOverride]_vars

\* Node fires an armed timer and delivers the error event of a failed
\* spawn; nothing is assumed of the decompiler process or of FFmpeg
SpecOverrideFair ==
  /\ SpecOverride
  /\ WF_vars(TimeoutFires)
  /\ WF_vars(ProcSpawnError)

\* ------------------------------------------------------------------------
\* detectSWFFrameRate (converter.ts)
\* ------------------------------------------------------------------------

Fps == <<"f", "p", "s">>
Tbr == <<"t", "b", "r">>

\* the last index of the run of digits that starts at i
DigitRunEnd(text, i) ==
  CHOOSE k \in i..Len(text) :
    /\ \A j \in i..k : IsDigit(text[j])
    /\ k = Len(text) \/ ~IsDigit(text[k + 1])

\* /(\d+(?:\.\d+)?)\s+marker/ tried at position i: the last index of the
\* captured number, 0 when the expression does not match there; the run of
\* white space after the number ends at spaceEnd
MatchEndAt(text, i, marker) ==
  IF ~IsDigit(text[i]) THEN 0
  ELSE LET intEnd == DigitRunEnd(text, i)
           hasFraction == /\ intEnd + 2 <= Len(text)
                          /\ text[intEnd + 1] = "."
                          /\ IsDigit(text[intEnd + 2])
           numEnd == IF hasFraction THEN DigitRunEnd(text, intEnd + 2)
                     ELSE intEnd
           spaces == {k \in (numEnd + 1)..Len(text) :
                        \A j \in (numEnd + 1)..k : text[j] \in {" ", "\n"}}
           spaceEnd == numEnd + Cardinality(spaces)
       IN IF /\ spaceEnd > numEnd
             /\ spaceEnd + Len(marker) <= Len(text)
             /\ SubSeq(text, spaceEnd + 1, spaceEnd + Len(marker)) = marker
          THEN numEnd ELSE 0

\* text.match(/(\d+(?:\.\d+)?)\s+marker/)[1]: the number of the leftmost
\* match, << >> without a match
MatchMarker(text, marker) ==
  LET starts == {i \in 1..Len(text) : MatchEndAt(text, i, marker) # 0}
  IN IF starts = {} THEN << >>
     ELSE LET first == CHOOSE i \in starts : \A j \in starts : i <= j
          IN SubSeq(text, first, MatchEndAt(text, first, marker))

RECURSIVE Pow10(_)
Pow10(n) == IF n = 0 THEN 1 ELSE 10 * Pow10(n - 1)

\* parseFloat of digits with an optional fraction, as <<m, s>> for m / s
ParseFloat(number) ==
  LET dots == {i \in 1..Len(number) : number[i] = "."}
  IN IF dots = {} THEN <<ParseInt(number), 1>>
     ELSE LET dot == CHOOSE i \in dots : TRUE
              fraction == SubSeq(number, dot + 1, Len(number))
          IN <<ParseInt(SubSeq(number, 1, dot - 1)) * Pow10(Len(fraction))
                 + ParseInt(fraction),
               Pow10(Len(fraction))>>

\* fps > 0 && fps <= 120
InRange(fps) == fps[1] > 0 /\ fps[1] <= 120 * fps[2]

\* the value the close listener resolves with; Math.round of m / s, which
\* is not negative, is the floor of m / s + 1 / 2
ParsedFrameRate(text) ==
  LET fpsMatch == MatchMarker(text, Fps)
      tbrMatch == MatchMarker(text, Tbr)
      MathRoundRatio(fps) == (2 * fps[1] + fps[2]) \div (2 * fps[2])
  IN IF fpsMatch # << >> /\ InRange(ParseFloat(fpsMatch))
     THEN MathRoundRatio(ParseFloat(fpsMatch))
     ELSE IF tbrMatch # << >> /\ InRange(ParseFloat(tbrMatch))
     THEN MathRoundRatio(ParseFloat(tbrMatch))
     ELSE 30

\* the stderr text of ffmpeg -i for a source of 25 frames per second
Report25 == <<"2", "5", " ", "f", "p", "s", ",", " ", "2", "5", " ", "t", "b", "r">>

\* stderr texts of ffmpeg -i: none, 25 fps, 29.97 fps, 0.4 fps, 150 fps with
\* 12.5 tbr, 0 fps with 1k tbr, 120 fps, 120.5 tbr
Reports ==
  {<< >>, Report25,
   <<"2", "9", ".", "9", "7", " ", "f", "p", "s">>,
   <<"0", ".", "4", " ", "f", "p", "s">>,
   <<"1", "5", "0", " ", "f", "p", "s", ",", " ",
     "1", "2", ".", "5", " ", "t", "b", "r">>,
   <<"0", " ", "f", "p", "s", ",", " ", "1", "k", " ", "t", "b", "r">>,
   <<"1", "2", "0", " ", "f", "p", "s">>,
   <<"1", "2", "0", ".", "5", " ", "t", "b", "r">>}

\* resolve() that replaces a value resolved before
ResolveDetectAgain(value, cause) ==
  /\ detectOutcome' = "resolved"
  /\ detectResult' = <<value>>
  /\ detectCause' = cause

\* resolve(value) of the promise of detectSWFFrameRate: the first call
\* settles it, later calls change nothing
ResolveDetect(value, cause) ==
  IF detectOutcome = "pending"
  THEN /\ detectOutcome' = "resolved"
       /\ detectResult' = <<value>>
       /\ detectCause' = cause
  ELSE UNCHANGED <<detectOutcome, detectResult, detectCause>>

\* the promise executor when FFmpeg is not available: resolve(30)
DetectUnavailable ==
  /\ detectOutcome = "pending"
  /\ ffmpegProcess = "null"
  /\ ~platformFfmpeg
  /\ ResolveDetect(30, "unavailable")
  /\ UNCHANGED <<batchVars, convertVars, extractVars, platformFfmpeg, report, stderrData, timeoutId,
                 ffmpegProcess, detectKilled>>

\* the promise executor: spawn, which may fail, and the 30 second timer
DetectSpawn ==
  /\ detectOutcome = "pending"
  /\ ffmpegProcess = "null"
  /\ platformFfmpeg
  /\ \E spawned \in BOOLEAN :
       ffmpegProcess' = IF spawned THEN "running" ELSE "spawnFailed"
  /\ timeoutId' = "armed"
  /\ UNCHANGED <<batchVars, convertVars, extractVars, platformFfmpeg, report, stderrData, detectKilled,
                 detectOutcome, detectResult, detectCause>>

\* a data event of stderr: the next piece of the report, of any length
DetectStderrData ==
  /\ ffmpegProcess = "running"
  /\ \E upTo \in (Len(stderrData) + 1)..Len(report) :
       stderrData' = stderrData \o SubSeq(report, Len(stderrData) + 1, upTo)
  /\ UNCHANGED <<batchVars, convertVars, extractVars, platformFfmpeg, report, timeoutId, ffmpegProcess,
                 detectKilled, detectOutcome, detectResult, detectCause>>

\* the process ends, by itself or by the signal
DetectProcExit ==
  /\ ffmpegProcess = "running"
  /\ ffmpegProcess' = "exited"
  /\ UNCHANGED <<batchVars, convertVars, extractVars, platformFfmpeg, report, stderrData, timeoutId,
                 detectKilled, detectOutcome, detectResult, detectCause>>

\* the close listener
DetectClose ==
  /\ ffmpegProcess \in {"exited", "errored"}
  /\ ffmpegProcess' = "closed"
  /\ timeoutId' = IF timeoutId = "armed" THEN "cleared" ELSE timeoutId
  /\ ResolveDetect(ParsedFrameRate(stderrData), "close")
  /\ UNCHANGED <<batchVars, convertVars, extractVars, platformFfmpeg, report, stderrData, detectKilled>>

\* the error listener, for a process that could not be spawned
DetectSpawnError ==
  /\ ffmpegProcess = "spawnFailed"
  /\ ffmpegProcess' = "errored"
  /\ timeoutId' = IF timeoutId = "armed" THEN "cleared" ELSE timeoutId
  /\ ResolveDetect(30, "error")
  /\ UNCHANGED <<batchVars, convertVars, extractVars, platformFfmpeg, report, stderrData, detectKilled>>

\* the timer callback after 30 seconds: kill() and resolve(30); a spawn
\* error is emitted long before
DetectTimeout ==
  /\ timeoutId = "armed"
  /\ ffmpegProcess # "spawnFailed"
  /\ timeoutId' = "fired"
  /\ detectKilled' = (detectKilled \/ ffmpegProcess = "running")
  /\ ResolveDetect(30, "timeout")
  /\ UNCHANGED <<batchVars, convertVars, extractVars, platformFfmpeg, report, stderrData, ffmpegProcess>>

InitDetect ==
  /\ InitRun({RunSize}, {<< >>}, {<< >>}) /\ BatchIdle
  /\ swfExists
  /\ platformFfmpeg \in BOOLEAN
  /\ ffmpegInitialized = platformFfmpeg
  /\ report \in Reports
  /\ stderrData = << >>
  /\ timeoutId = "unset"
  /\ ffmpegProcess = "null"
  /\ detectKilled = FALSE
  /\ detectOutcome = "pending"
  /\ detectResult = << >>
  /\ detectCause = "none"
  /\ ConvertIdle

NextDetect ==
  \/ DetectUnavailable
  \/ DetectSpawn
  \/ DetectStderrData
  \/ DetectProcExit
  \/ DetectClose
  \/ DetectSpawnError
  \/ DetectTimeout

SpecDetect == InitDetect /\ [][NextDetect]_vars

\* the executor runs when the promise is made; Node delivers a pending spawn
\* error and fires an armed timer; nothing is assumed of the process
SpecDetectFair ==
  /\ SpecDetect
  /\ WF_vars(DetectUnavailable)
  /\ WF_vars(DetectSpawn)
  /\ WF_vars(DetectSpawnError)
  /\ WF_vars(DetectTimeout)

\* ------------------------------------------------------------------------
\* convertSWF (converter.ts); its tempDir is the output tree of extractSWF
\* ------------------------------------------------------------------------

\* a choice that takes the detected rate whenever it is not 30
ActualFrameRatePreferDetected(optionsFramerate, detected) ==
  IF detected # 30 THEN detected ELSE optionsFramerate

\* actualFrameRate of convertSWF
ActualFrameRate(optionsFramerate, detected) ==
  IF optionsFramerate # 30 THEN optionsFramerate ELSE detected

\* a cleanup condition that does not look at keepExtracted
ShouldCleanAlways == "out" \in dirs

\* !options.keepExtracted && fs.existsSync(tempDir)
ShouldClean == ~keepExtracted /\ "out" \in dirs

\* a convertSWF that resolves whatever was thrown
SettleConvertResolving(error) ==
  /\ convertPc' = "settled"
  /\ convertError' = error
  /\ convertOutcome' = "resolved"

\* convertSWF settles: it rejects with the error thrown last, if any
SettleConvert(error) ==
  /\ convertPc' = "settled"
  /\ convertError' = error
  /\ convertOutcome' = IF error = "none" THEN "resolved" ELSE "rejected"

\* the finally block, entered with the error of the try block: it settles
\* convertSWF or calls removeDirectory(tempDir), which lists tempDir
Finally(error) ==
  IF ShouldClean
  THEN /\ convertPc' = "cleanup"
       /\ convertError' = error
       /\ cleanDir' = "root"
       /\ rootTodo' = [files |-> framesRoot, dirs |-> dirs \cap {"frames", "sounds"}]
       /\ UNCHANGED convertOutcome
  ELSE /\ SettleConvert(error)
       /\ UNCHANGED <<cleanDir, rootTodo>>

\* detectSWFFrameRate has resolved, with the value parsed from the report or
\* with 30: the rate is chosen and extractSWF is called
ConvertDetected ==
  /\ convertPc = "detect"
  /\ \E detected \in {ParsedFrameRate(report), 30} :
       /\ detectedFrameRate' = <<detected>>
       /\ actualFrameRate' = <<ActualFrameRate(framerate, detected)>>
  /\ convertPc' = "extract"
  /\ UNCHANGED <<batchVars, extractVars, detectVars, framerate, keepExtracted, assemblyVars,
                 convertError, convertOutcome, cleanDir, rootTodo, subTodo>>

\* extractSWF has rejected: the finally block runs
ConvertExtractFailed ==
  /\ convertPc = "extract"
  /\ pc = "done"
  /\ outcome = "rejected"
  /\ Finally("extraction")
  /\ UNCHANGED <<batchVars, extractVars, detectVars, framerate, keepExtracted,
                 detectedFrameRate, actualFrameRate, assemblyVars, subTodo>>

\* the manifest has no frame: the error is thrown and the finally block runs
ConvertNoFrames ==
  /\ convertPc = "extract"
  /\ pc = "analyzed"
  /\ manifest.frameCount = 0
  /\ Finally("noFrames")
  /\ UNCHANGED <<batchVars, extractVars, detectVars, framerate, keepExtracted,
                 detectedFrameRate, actualFrameRate, assemblyVars, subTodo>>

\* an executor that makes the write test before it looks at the frames
ConvertFramesToMP4ProbeFirst(content, rate) ==
  IF Len(content.frameFiles) = 0
  THEN /\ probed' = TRUE
       /\ assembleOutcome' = "rejected"
       /\ UNCHANGED command
  ELSE /\ probed' = TRUE
       /\ \E writable \in BOOLEAN :
            IF writable
            THEN LET firstFrame == content.frameFiles[1]
                     frameDir == SubSeq(firstFrame, 1,
                                        Len(firstFrame) - Len(Basename(firstFrame)) - 1)
                     pattern == Join(frameDir, <<"%", "d">> \o Extname(firstFrame))
                     audio == IF Len(content.audioFiles) > 0
                              THEN <<content.audioFiles[1]>> ELSE << >>
                 IN /\ command' = <<[inputs |-> <<pattern>> \o audio,
                                     framerate |-> rate,
                                     audioCodec |-> IF audio # << >>
                                                    THEN <<"aac">> ELSE << >>]>>
                    /\ assembleOutcome' = "pending"
            ELSE /\ assembleOutcome' = "rejected"
                 /\ UNCHANGED command

\* an executor that takes the last audio file of the manifest
ConvertFramesToMP4LastAudio(content, rate) ==
  IF Len(content.frameFiles) = 0
  THEN /\ assembleOutcome' = "rejected"
       /\ UNCHANGED <<probed, command>>
  ELSE /\ probed' = TRUE
       /\ \E writable \in BOOLEAN :
            IF writable
            THEN LET firstFrame == content.frameFiles[1]
                     frameDir == SubSeq(firstFrame, 1,
                                        Len(firstFrame) - Len(Basename(firstFrame)) - 1)
                     pattern == Join(frameDir, <<"%", "d">> \o Extname(firstFrame))
                     audio == IF Len(content.audioFiles) > 0
                              THEN <<content.audioFiles[Len(content.audioFiles)]>> ELSE << >>
                 IN /\ command' = <<[inputs |-> <<pattern>> \o audio,
                                     framerate |-> rate,
                                     audioCodec |-> IF audio # << >>
                                                    THEN <<"aac">> ELSE << >>]>>
                    /\ assembleOutcome' = "pending"
            ELSE /\ assembleOutcome' = "rejected"
                 /\ UNCHANGED command

\* the promise executor of convertFramesToMP4(content, outputPath, rate):
\* no frame file rejects at once; then the write test of the directory of
\* the output file, whose failure rejects; then the command is built, with
\* the pattern of createFramePattern (the directory of the first frame, %d
\* and its extension) as first input and the first audio file, if there is
\* one, as second input, and run
ConvertFramesToMP4(content, rate) ==
  IF Len(content.frameFiles) = 0
  THEN /\ assembleOutcome' = "rejected"
       /\ UNCHANGED <<probed, command>>
  ELSE /\ probed' = TRUE
       /\ \E writable \in BOOLEAN :
            IF writable
            THEN LET firstFrame == content.frameFiles[1]
                     frameDir == SubSeq(firstFrame, 1,
                                        Len(firstFrame) - Len(Basename(firstFrame)) - 1)
                     pattern == Join(frameDir, <<"%", "d">> \o Extname(firstFrame))
                     audio == IF Len(content.audioFiles) > 0
                              THEN <<content.audioFiles[1]>> ELSE << >>
                 IN /\ command' = <<[inputs |-> <<pattern>> \o audio,
                                     framerate |-> rate,
                                     audioCodec |-> IF audio # << >>
                                                    THEN <<"aac">> ELSE << >>]>>
                    /\ assembleOutcome' = "pending"
            ELSE /\ assembleOutcome' = "rejected"
                 /\ UNCHANGED command

\* the manifest has frames: convertFramesToMP4 is called with the rate
\* chosen
ConvertAssemble ==
  /\ convertPc = "extract"
  /\ pc = "analyzed"
  /\ manifest.frameCount # 0
  /\ convertPc' = "assemble"
  /\ assembledAt' = actualFrameRate
  /\ ConvertFramesToMP4(manifest, actualFrameRate[1])
  /\ UNCHANGED <<batchVars, extractVars, detectVars, framerate, keepExtracted,
                 detectedFrameRate, actualFrameRate, convertError,
                 convertOutcome, cleanDir, rootTodo, subTodo>>

\* the end event of the assembly: convertFramesToMP4 resolves
AssembleEnd ==
  /\ convertPc = "assemble"
  /\ assembleOutcome = "pending"
  /\ assembleOutcome' = "resolved"
  /\ Finally("none")
  /\ UNCHANGED <<batchVars, extractVars, detectVars, framerate, keepExtracted,
                 detectedFrameRate, actualFrameRate, assembledAt, probed,
                 command, subTodo>>

\* convertFramesToMP4 has rejected, in its executor or by the error event
\* of the assembly
AssembleError ==
  /\ convertPc = "assemble"
  /\ assembleOutcome \in {"pending", "rejected"}
  /\ assembleOutcome' = "rejected"
  /\ Finally("assembly")
  /\ UNCHANGED <<batchVars, extractVars, detectVars, framerate, keepExtracted,
                 detectedFrameRate, actualFrameRate, assembledAt, probed,
                 command, subTodo>>

\* convertFramesToMP4 called on the manifest of any tree, without the test
\* of convertSWF before it
AssembleManifest ==
  /\ convertPc = "idle"
  /\ pc = "analyzed"
  /\ assembleOutcome = "idle"
  /\ assembledAt' = <<framerate>>
  /\ ConvertFramesToMP4(manifest, framerate)
  /\ UNCHANGED <<batchVars, extractVars, detectVars, framerate, keepExtracted, convertPc,
                 detectedFrameRate, actualFrameRate, convertError,
                 convertOutcome, cleanDir, rootTodo, subTodo>>

\* the tree is analysed by convertSWF, which keeps the extracted files and
\* has chosen 30 frames per second, or by a caller of its own
InitAssemble ==
  /\ AnalyzeTree
  /\ \/ ConvertIdle
     \/ /\ framerate = 30
        /\ keepExtracted = TRUE
        /\ convertPc = "extract"
        /\ detectedFrameRate = <<30>>
        /\ actualFrameRate = <<30>>
        /\ assembledAt = << >>
        /\ assembleOutcome = "idle"
        /\ probed = FALSE
        /\ command = << >>
        /\ convertError = "none"
        /\ convertOutcome = "pending"
        /\ cleanDir = "none"
        /\ rootTodo = NoRootTodo
        /\ subTodo = NoSubTodo

NextAssemble ==
  \/ AnalyzeExtractedContent
  \/ ConvertNoFrames
  \/ ConvertAssemble
  \/ AssembleEnd
  \/ AssembleError
  \/ AssembleManifest

SpecAssemble == InitAssemble /\ [][NextAssemble]_vars

\* ------------------------------------------------------------------------
\* removeDirectory (converter.ts): the entries listed by readdirSync are
\* taken in any order, the files among them as one entry
\* ------------------------------------------------------------------------

\* fs.unlinkSync of the listed files of tempDir, taken as one step
CleanRootFiles ==
  /\ convertPc = "cleanup"
  /\ cleanDir = "root"
  /\ rootTodo.files # {}
  /\ framesRoot' = framesRoot \ rootTodo.files
  /\ rootTodo' = [rootTodo EXCEPT !.files = {}]
  /\ UNCHANGED <<batchVars, detectVars, inputVars, procVars, runVars, finalTimeoutMs,
                 listing, analyzeCalls, manifest, dirs, numberedDirs,
                 framesSub, sounds, framerate, keepExtracted,
                 convertPc, detectedFrameRate, actualFrameRate, assemblyVars,
                 convertError, convertOutcome, cleanDir, subTodo>>

\* removeDirectory of a listed subdirectory: fs.readdirSync
CleanEnterSub ==
  /\ convertPc = "cleanup"
  /\ cleanDir = "root"
  /\ \E d \in rootTodo.dirs :
       /\ cleanDir' = d
       /\ subTodo' = IF d = "frames"
                     THEN [files |-> framesSub, numbered |-> numberedDirs # {}]
                     ELSE [files |-> SoundFiles, numbered |-> FALSE]
  /\ UNCHANGED <<batchVars, extractVars, detectVars, framerate, keepExtracted, convertPc,
                 detectedFrameRate, actualFrameRate, assemblyVars,
                 convertError, convertOutcome, rootTodo>>

\* fs.unlinkSync of the listed files of the subdirectory, taken as one step
CleanSubFiles ==
  /\ convertPc = "cleanup"
  /\ cleanDir \in {"frames", "sounds"}
  /\ subTodo.files # {}
  /\ IF cleanDir = "frames"
     THEN framesSub' = framesSub \ subTodo.files /\ UNCHANGED sounds
     ELSE /\ sounds' = [a \in AudioNames |->
                         IF a \in subTodo.files THEN "absent" ELSE sounds[a]]
          /\ UNCHANGED framesSub
  /\ subTodo' = [subTodo EXCEPT !.files = {}]
  /\ UNCHANGED <<batchVars, detectVars, inputVars, procVars, runVars, finalTimeoutMs,
                 listing, analyzeCalls, manifest, dirs, numberedDirs,
                 framesRoot, framerate, keepExtracted, convertPc,
                 detectedFrameRate, actualFrameRate, assemblyVars,
                 convertError, convertOutcome, cleanDir, rootTodo>>

\* removeDirectory of the numbered directories of frames/, which are empty:
\* readdirSync and rmdirSync of each
CleanNumbered ==
  /\ convertPc = "cleanup"
  /\ cleanDir = "frames"
  /\ subTodo.numbered
  /\ numberedDirs' = {}
  /\ subTodo' = [subTodo EXCEPT !.numbered = FALSE]
  /\ UNCHANGED <<batchVars, detectVars, inputVars, procVars, runVars, finalTimeoutMs,
                 listing, analyzeCalls, manifest, dirs, framesSub, framesRoot,
                 sounds, framerate, keepExtracted, convertPc,
                 detectedFrameRate, actualFrameRate, assemblyVars,
                 convertError, convertOutcome, cleanDir, rootTodo>>

\* the directory whose loop has ended holds nothing
IsEmptyDir(d) ==
  IF d = "frames" THEN framesSub = {} /\ numberedDirs = {}
  ELSE IF d = "sounds" THEN SoundFiles = {}
  ELSE framesRoot = {} /\ dirs \cap {"frames", "sounds"} = {}

\* a removal of the subdirectory with whatever it holds
CleanSubRmdirForce ==
  /\ convertPc = "cleanup"
  /\ cleanDir \in {"frames", "sounds"}
  /\ subTodo = NoSubTodo
  /\ dirs' = dirs \ {cleanDir}
  /\ cleanDir' = "root"
  /\ rootTodo' = [rootTodo EXCEPT !.dirs = @ \ {cleanDir}]
  /\ UNCHANGED <<convertPc, convertError, convertOutcome>>
  /\ UNCHANGED <<batchVars, detectVars, inputVars, procVars, runVars, finalTimeoutMs,
                 listing, analyzeCalls, manifest, numberedDirs, framesSub,
                 framesRoot, sounds, framerate, keepExtracted,
                 detectedFrameRate, actualFrameRate, assemblyVars, subTodo>>

\* fs.rmdirSync of the subdirectory after its loop: it throws ENOTEMPTY when
\* a file has been written since the listing, and convertSWF rejects
CleanSubRmdir ==
  /\ convertPc = "cleanup"
  /\ cleanDir \in {"frames", "sounds"}
  /\ subTodo = NoSubTodo
  /\ IF IsEmptyDir(cleanDir)
     THEN /\ dirs' = dirs \ {cleanDir}
          /\ cleanDir' = "root"
          /\ rootTodo' = [rootTodo EXCEPT !.dirs = @ \ {cleanDir}]
          /\ UNCHANGED <<convertPc, convertError, convertOutcome>>
     ELSE /\ SettleConvert("cleanup")
          /\ UNCHANGED <<dirs, cleanDir, rootTodo>>
  /\ UNCHANGED <<batchVars, detectVars, inputVars, procVars, runVars, finalTimeoutMs,
                 listing, analyzeCalls, manifest, numberedDirs, framesSub,
                 framesRoot, sounds, framerate, keepExtracted,
                 detectedFrameRate, actualFrameRate, assemblyVars, subTodo>>

\* fs.rmdirSync(tempDir) after the loop of tempDir, and convertSWF settles
CleanRootRmdir ==
  /\ convertPc = "cleanup"
  /\ cleanDir = "root"
  /\ rootTodo = NoRootTodo
  /\ IF IsEmptyDir("root")
     THEN /\ dirs' = {}
          /\ SettleConvert(convertError)
     ELSE /\ SettleConvert("cleanup")
          /\ UNCHANGED dirs
  /\ cleanDir' = "none"
  /\ UNCHANGED <<batchVars, detectVars, inputVars, procVars, runVars, finalTimeoutMs,
                 listing, analyzeCalls, manifest, numberedDirs, framesSub,
                 framesRoot, sounds, framerate, keepExtracted,
                 detectedFrameRate, actualFrameRate, assemblyVars, rootTodo,
                 subTodo>>

\* extractSWF, its decompiler and its FFmpeg fallback run while convertSWF
\* awaits extractSWF or the assembly
ExtractionStep ==
  /\ convertPc \in {"extract", "assemble"}
  /\ Next

\* removeDirectory runs to its end without a turn of the event loop: no
\* listener and no timer callback runs meanwhile, but a decompiler that is
\* still alive writes and ends as it pleases
DuringCleanup ==
  /\ convertPc = "cleanup"
  /\ \/ ProcWriteFrame
     \/ ProcWriteAudio
     \/ ProcExit
     \/ ProcDie

\* convertSWF is called on a source with no tempDir left by an earlier run,
\* on a platform with FFmpeg
InitConvertWith(framerates, reports, keeps) ==
  /\ InitRun({RunSize}, {<< >>}, {<< >>}) /\ BatchIdle
  /\ ffmpegInitialized
  /\ platformFfmpeg = ffmpegInitialized
  /\ report \in reports
  /\ stderrData = << >>
  /\ timeoutId = "unset"
  /\ ffmpegProcess = "null"
  /\ detectKilled = FALSE
  /\ detectOutcome = "idle"
  /\ detectResult = << >>
  /\ detectCause = "none"
  /\ framerate \in framerates
  /\ keepExtracted \in keeps
  /\ convertPc = "detect"
  /\ detectedFrameRate = << >>
  /\ actualFrameRate = << >>
  /\ assembledAt = << >>
  /\ assembleOutcome = "idle"
  /\ probed = FALSE
  /\ command = << >>
  /\ convertError = "none"
  /\ convertOutcome = "pending"
  /\ cleanDir = "none"
  /\ rootTodo = NoRootTodo
  /\ subTodo = NoSubTodo

\* conversions at the default frame rate of a source without a rate marker
InitConvert == InitConvertWith({30}, {<< >>}, BOOLEAN)

\* conversions that keep the extracted files, asked for at 24 frames per
\* second and at the default 30
InitRate == InitConvertWith({24, 30}, {Report25}, {TRUE})

NextConvert ==
  \/ ConvertDetected
  \/ ConvertExtractFailed
  \/ ConvertNoFrames
  \/ ConvertAssemble
  \/ AssembleEnd
  \/ AssembleError
  \/ CleanRootFiles
  \/ CleanEnterSub
  \/ CleanSubFiles
  \/ CleanNumbered
  \/ CleanSubRmdir
  \/ CleanRootRmdir
  \/ ExtractionStep
  \/ DuringCleanup

SpecConvert == InitConvert /\ [][NextConvert]_vars

\* the steps of a conversion that keeps the extracted files: the finally
\* block skips removeDirectory
NextRate ==
  \/ ConvertDetected
  \/ ConvertExtractFailed
  \/ ConvertNoFrames
  \/ ConvertAssemble
  \/ AssembleEnd
  \/ AssembleError
  \/ ExtractionStep

SpecRate == InitRate /\ [][NextRate]_vars

\* ------------------------------------------------------------------------
\* The extract and convert commands (cli.ts). A file is a record of its
\* directory, its name and its extension; each call of extractSWF or
\* convertSWF resolves or rejects as its own run decides
\* ------------------------------------------------------------------------

\* the call the loop makes for a file, with the directory the call works
\* in: for extract the outputDir of extractSWF, which is under
\* options.output or beside the source, for convert the tempDir of
\* convertSWF, which is beside the MP4 file. path.basename(swfFile, '.swf')
\* cuts the extension only when it is .swf in lower case
CallOf(file) ==
  LET base == IF file.ext = <<"s", "w", "f">> THEN <<file.name>>
              ELSE <<file.name, file.ext>>
  IN [file |-> file,
      outcome |-> "pending",
      dir |-> IF batchCommand = "extract"
              THEN IF outputOption THEN <<"out", base>>
                   ELSE <<file.dir, base, "-output">>
              ELSE <<IF outputOption THEN "out" ELSE file.dir, ".temp-", base>>]

\* the command action up to its first call of extractSWF or convertSWF:
\* the help request, the platform check, findSWFFiles, whose glob lists
\* the matches in an order of its own, and the first pass of the loop
BatchStart ==
  /\ batchPc = "start"
  /\ LET exit(code) == /\ batchPc' = "ended"
                       /\ exitCode' = <<code>>
                       /\ UNCHANGED <<swfFiles, calls>>
         isSwf(f) == ToLowerCase(f.ext) = <<"s", "w", "f">>
         isFile == batchInput.kind = "file"
         throws == \/ batchInput.kind = "missing"
                   \/ isFile /\ ~isSwf(batchInput)
         matches == IF isFile THEN {[dir |-> ".", name |-> 1, ext |-> batchInput.ext]}
                    ELSE {f \in batchInput.files : isSwf(f) /\ (recursive \/ f.dir = ".")}
         n == Cardinality(matches)
     IN IF batchHelp THEN exit(0)
        ELSE IF ~platformStatus THEN exit(1)
        ELSE IF throws \/ n = 0 THEN exit(1)
        ELSE \E found \in {s \in [1..n -> matches] : \A i, j \in 1..n : s[i] = s[j] => i = j} :
               /\ swfFiles' = found
               /\ calls' = <<CallOf(found[1])>>
               /\ batchPc' = "await"
               /\ UNCHANGED exitCode
  /\ UNCHANGED <<extractVars, detectVars, convertVars, batchCommand, batchHelp,
                 platformStatus, batchInput, recursive, outputOption, results>>

\* a loop that ends at the first file that fails
BatchSettleStopping ==
  /\ batchPc = "await"
  /\ \E error \in {<< >>, <<"Extraction timeout">>, <<"No frames were extracted">>} :
       LET i == Len(calls)
           file == swfFiles[i]
           counted == IF error = << >>
                      THEN [results EXCEPT !.successful = @ + 1]
                      ELSE [results EXCEPT
                              !.failed = @ + 1,
                              !.errors = Append(@, [file |-> <<file.name, file.ext>>,
                                                    error |-> error[1]])]
           settled == [calls EXCEPT ![i].outcome = IF error = << >> THEN "resolved"
                                                   ELSE "rejected"]
       IN /\ results' = counted
          /\ IF i < Len(swfFiles) /\ error = << >>
             THEN /\ calls' = Append(settled, CallOf(swfFiles[i + 1]))
                  /\ UNCHANGED <<batchPc, exitCode>>
             ELSE /\ calls' = settled
                  /\ batchPc' = "ended"
                  /\ exitCode' = IF counted.failed > 0 /\ counted.successful = 0
                                 THEN <<1>> ELSE <<0>>
  /\ UNCHANGED <<extractVars, detectVars, convertVars, batchCommand, batchHelp,
                 platformStatus, batchInput, recursive, outputOption, swfFiles>>

\* a command that exits with 1 whenever a file has failed
BatchSettleExitOnFailure ==
  /\ batchPc = "await"
  /\ \E error \in {<< >>, <<"Extraction timeout">>, <<"No frames were extracted">>} :
       LET i == Len(calls)
           file == swfFiles[i]
           counted == IF error = << >>
                      THEN [results EXCEPT !.successful = @ + 1]
                      ELSE [results EXCEPT
                              !.failed = @ + 1,
                              !.errors = Append(@, [file |-> <<file.name, file.ext>>,
                                                    error |-> error[1]])]
           settled == [calls EXCEPT ![i].outcome = IF error = << >> THEN "resolved"
                                                   ELSE "rejected"]
       IN /\ results' = counted
          /\ IF i < Len(swfFiles)
             THEN /\ calls' = Append(settled, CallOf(swfFiles[i + 1]))
                  /\ UNCHANGED <<batchPc, exitCode>>
             ELSE /\ calls' = settled
                  /\ batchPc' = "ended"
                  /\ exitCode' = IF counted.failed > 0 THEN <<1>> ELSE <<0>>
  /\ UNCHANGED <<extractVars, detectVars, convertVars, batchCommand, batchHelp,
                 platformStatus, batchInput, recursive, outputOption, swfFiles>>

\* the awaited call settles: the rest of the try or the catch of the loop
\* body, then the next pass of the loop up to its call or, after the last
\* file, the final results and the end of the command. error is << >>
\* when the call resolved
BatchSettle ==
  /\ batchPc = "await"
  /\ \E error \in {<< >>, <<"Extraction timeout">>, <<"No frames were extracted">>} :
       LET i == Len(calls)
           file == swfFiles[i]
           counted == IF error = << >>
                      THEN [results EXCEPT !.successful = @ + 1]
                      ELSE [results EXCEPT
                              !.failed = @ + 1,
                              !.errors = Append(@, [file |-> <<file.name, file.ext>>,
                                                    error |-> error[1]])]
           settled == [calls EXCEPT ![i].outcome = IF error = << >> THEN "resolved"
                                                   ELSE "rejected"]
       IN /\ results' = counted
          /\ IF i < Len(swfFiles)
             THEN /\ calls' = Append(settled, CallOf(swfFiles[i + 1]))
                  /\ UNCHANGED <<batchPc, exitCode>>
             ELSE /\ calls' = settled
                  /\ batchPc' = "ended"
                  /\ exitCode' = IF counted.failed > 0 /\ counted.successful = 0
                                 THEN <<1>> ELSE <<0>>
  /\ UNCHANGED <<extractVars, detectVars, convertVars, batchCommand, batchHelp,
                 platformStatus, batchInput, recursive, outputOption, swfFiles>>

\* a command on any input: a path that does not exist, a file with the
\* extension swf, SWF or txt, or a directory of 0 .. MaxBatchFiles SWF files
\* (n.swf for odd n, n.SWF for even n), a text file, and at will the
\* subdirectory file sub/1.swf
InitBatch ==
  /\ InitRun({RunSize}, {<< >>}, {<< >>})
  /\ swfExists
  /\ DetectIdle
  /\ ConvertIdle
  /\ batchCommand \in {"extract", "convert"}
  /\ batchHelp \in BOOLEAN
  /\ platformStatus \in BOOLEAN
  /\ recursive \in BOOLEAN
  /\ outputOption \in BOOLEAN
  /\ LET swf == <<"s", "w", "f">>
         upper == <<"S", "W", "F">>
         txt == <<"t", "x", "t">>
     IN batchInput \in
          {[kind |-> "missing", ext |-> << >>, files |-> {}]}
            \cup {[kind |-> "file", ext |-> e, files |-> {}] : e \in {swf, upper, txt}}
            \cup {[kind |-> "dir", ext |-> << >>,
                   files |-> {[dir |-> ".", name |-> k,
                               ext |-> IF k % 2 = 1 THEN swf ELSE upper] : k \in 1..top}
                             \cup {[dir |-> ".", name |-> 0, ext |-> txt]}
                             \cup (IF nested THEN {[dir |-> "sub", name |-> 1, ext |-> swf]}
                                   ELSE {})]
                  : top \in 0..MaxBatchFiles, nested \in BOOLEAN}
  /\ batchPc = "start"
  /\ swfFiles = << >>
  /\ calls = << >>
  /\ results = [successful |-> 0, failed |-> 0, errors |-> << >>]
  /\ exitCode = << >>

NextBatch == BatchStart \/ BatchSettle

SpecBatch == InitBatch /\ [][NextBatch]_vars

\* ------------------------------------------------------------------------
\* Properties
\* ------------------------------------------------------------------------

\* extractSWF has settled
Settled == pc \in {"done", "analyzed"}

\* the step of convertSWF that is under way: 1 rate detection, 2 decompiler
\* extraction, 3 audio fallback, 4 reconciliation (from the frame check of
\* extractSWF to the manifest), 5 assembly, 6 cleanup, 7 settled
Stage ==
  IF convertPc = "detect" THEN 1
  ELSE IF convertPc = "extract"
  THEN (IF pc \in {"init", "jpexs"} THEN 2 ELSE IF pc = "fallback" THEN 3 ELSE 4)
  ELSE IF convertPc = "assemble" THEN 5
  ELSE IF convertPc = "cleanup" THEN 6
  ELSE 7

\* C1: when the decompiler signalled a fatal error (onError ended the
\* decompiler step: fatal stderr chunk, spawn error) and the frame check
\* found no PNG frame in frames/ nor in the output root, extractSWF rejects,
\* wherever the close event falls
C1_FatalErrorWithoutFramesRejects ==
  (Settled /\ stepEnd = "error" /\ hasFrames = "no") => outcome = "rejected"

\* C2: whenever extractSWF resolves, the frame check has found at least one
\* PNG frame in frames/ or in the output root
C2_ResolvedImpliesFrames ==
  (Settled /\ outcome = "resolved") => hasFrames = "yes"

\* C3: a run in which a fatal stderr chunk reached onError always gets to
\* the frame check, and when that finds a PNG frame extractSWF resolves,
\* after the FFmpeg fallback has been called and has settled
C3_PartialExtractionResolves ==
  (Settled /\ fatalSeen) =>
    /\ hasFrames # "unset"
    /\ hasFrames = "yes" =>
         (outcome = "resolved" /\ fallback \in {"resolved", "rejected"})

\* C3 witness: a fatal stderr chunk, no clean close seen by the frame check,
\* frames on disk, FFmpeg run, extractSWF resolved
C3_Witness ==
  /\ pc = "done"
  /\ fatalSeen
  /\ ~jpexsSucceeded
  /\ hasFrames = "yes"
  /\ ffmpegEvent # NoEvent
  /\ outcome = "resolved"

\* C4: in every run whose decompiler step was started and has ended (by
\* close, by error or by timeout), the audio fallback has been attempted
\* when extractSWF settles
C4_FallbackAlwaysAttempted ==
  (Settled /\ stepEnd # "none") => fallback # "none"

\* C5: a run whose decompiler timeout fired is not failed when a PNG frame
\* is on disk
C5_TimeoutWithFramesNotFailed ==
  (Settled /\ stepEnd = "timeout" /\ (HasFramesInSubdir \/ HasFramesInRoot))
    => outcome # "rejected"

\* C6: once the 5 seconds after the SIGTERM of a timed-out decompiler have
\* passed, a process that has not exited has been sent SIGKILL
C6_ForcedKillAfterGrace ==
  (graceTimer = "fired" /\ proc = "running") => "SIGKILL" \in signals

\* C7: a rejected audio fallback never makes extractSWF reject: the run gets
\* to the frame check, and it rejects only when the decompiler ended in
\* error and the frame check found no frame
C7_FallbackFailureNotFatal ==
  (Settled /\ fallback = "rejected") =>
    /\ hasFrames # "unset"
    /\ outcome \in {"resolved", "rejected"}
    /\ outcome = "rejected" => (stepEnd = "error" /\ hasFrames = "no")

\* C7 witness: FFmpeg failed with an error that is not a no-audio message
\* and extractSWF resolved
C7_Witness ==
  /\ Settled
  /\ ffmpegEvent = ErrInvalidData
  /\ fallback = "rejected"
  /\ outcome = "resolved"

\* C8: extractAudioWithFFmpeg resolves when FFmpeg ends (also with a missing
\* or empty output file) or fails with the empty-output or the no-stream
\* message, and rejects for every other FFmpeg error
C8_FallbackSettlesByEvent ==
  ffmpegEvent # NoEvent =>
    fallback = IF ffmpegEvent \in {EndEvent, ErrEmptyOutput, ErrNoStream}
               THEN "resolved" ELSE "rejected"

\* C8 witness: FFmpeg ended leaving an empty sounds/0.mp3 and the fallback
\* resolved
C8_Witness ==
  /\ ffmpegEvent = EndEvent
  /\ sounds[FallbackAudio] = "empty"
  /\ fallback = "resolved"

\* C9: after an extraction in which no file of sounds/ holds audio data (the
\* decompiler wrote none, the fallback's result was empty or absent), the
\* manifest of analyzeExtractedContent has zero audio files
C9_SilentSourceHasNoAudioFiles ==
  (/\ pc = "analyzed"
   /\ fallback = "resolved"
   /\ \A a \in AudioNames : sounds[a] \in {"absent", "empty"})
    => Len(manifest.audioFiles) = 0

\* C10: the manifest uses frames/ exactly when it holds strictly more .png
\* files than the output root; its frame list holds the .png files of the
\* layout used and no other, framesDir names that layout, frameCount is the
\* length of the list
C10_ManifestUsesOneLayout ==
  pc = "analyzed" =>
    LET inSubdir == {f \in framesSub : IsPngFile(f)}
        inRoot == {f \in framesRoot : IsPngFile(f)}
        subdirWins == Cardinality(inSubdir) > Cardinality(inRoot)
        expected == IF subdirWins
                    THEN {Join(FramesDir, f) : f \in inSubdir}
                    ELSE {Join(OutputDir, f) : f \in inRoot}
        listed == {manifest.frameFiles[i] : i \in 1..Len(manifest.frameFiles)}
    IN /\ manifest.framesDir = (IF subdirWins THEN FramesDir ELSE OutputDir)
       /\ listed = expected
       /\ Len(manifest.frameFiles) = Cardinality(expected)
       /\ manifest.frameCount = Len(manifest.frameFiles)

\* C10 witness: the two layouts hold one .png file each, not the same one,
\* and the manifest lists the file of the root
C10_Witness ==
  /\ pc = "analyzed"
  /\ framesSub = {PngName(1)}
  /\ framesRoot = {UpperPng, NotAFrame}
  /\ manifest.framesDir = OutputDir
  /\ manifest.frameFiles = <<Join(OutputDir, UpperPng)>>
  /\ manifest.frameCount = 1

\* C11: for the frame files 1.png .. N.png of one layout, listed by the
\* filesystem in any order, the frame list of the manifest is 1.png, 2.png,
\* .., N.png: ascending by number, 10.png after 9.png
C11_FramesInNumericOrder ==
  pc = "analyzed" =>
    LET n == Cardinality(framesSub) + Cardinality(framesRoot)
        dir == IF framesSub # {} THEN FramesDir ELSE OutputDir
    IN manifest.frameFiles = [i \in 1..n |-> Join(dir, PngName(i))]

\* C11 witness: ten frames in the output root, listed in the order of their
\* names (1.png, 10.png, 2.png, ..), and 10.png is the last frame of the
\* manifest
C11_Witness ==
  /\ pc = "analyzed"
  /\ framesRoot = SortNames(10)
  /\ listing[2] = ByName(framesRoot)
  /\ listing[2][2] = PngName(10)
  /\ manifest.frameFiles[10] = Join(OutputDir, PngName(10))

C17_TimeoutEqualsFormula ==
  (timer # "unset" /\ ~HasOverride) =>
    LET formula == 80 + 2 * swfSize + Max(0, swfSize - 80)
                     + Max(0, swfSize - 200)
    IN 8 * finalTimeoutMs = Max(80, formula) * 60000

\* C17 amended: without an override the timeout is a whole number of
\* minutes, the value of that formula floored at 10 and rounded to the
\* nearest minute, halves upwards
C17_TimeoutIsRoundedFormula ==
  (timer # "unset" /\ ~HasOverride) =>
    LET formula == 80 + 2 * swfSize + Max(0, swfSize - 80)
                     + Max(0, swfSize - 200)
        minutes == finalTimeoutMs \div 60000
    IN /\ finalTimeoutMs = minutes * 60000
       /\ 8 * minutes - 4 <= Max(80, formula)
       /\ Max(80, formula) < 8 * minutes + 4

\* C17 witness: a source of 50.5 MB, whose formula value 75.75 is armed as
\* 76 minutes
C17_Witness ==
  /\ timer = "armed"
  /\ timeoutMinutes = << >>
  /\ swfSize = 202
  /\ finalTimeoutMs = 76 * 60000

\* C18 as stated: with an override of n minutes given, the timer is armed
\* for n minutes whatever the source size, and the size-based value is used
\* only when no override is given
C18_OverrideArmsExactly ==
  timer # "unset" =>
    finalTimeoutMs = IF timeoutMinutes # << >>
                     THEN timeoutMinutes[1] * 60000
                     ELSE DynamicTimeoutMinutes(swfSize) * 60000

\* C18 amended: with an override of n minutes, n not 0, the timer is armed
\* for n minutes and the source is not looked at (a missing source gets to
\* the decompiler step); without an override, or with an override of 0, the
\* size-based value is armed; the armed value stays as it is to the end of
\* the run
C18_NonZeroOverrideArmsExactly ==
  /\ timer # "unset" =>
       finalTimeoutMs = IF timeoutMinutes # << >> /\ timeoutMinutes[1] # 0
                        THEN timeoutMinutes[1] * 60000
                        ELSE DynamicTimeoutMinutes(swfSize) * 60000
  /\ (timeoutMinutes # << >> /\ timeoutMinutes[1] # 0 /\ pc # "init") =>
       timer # "unset"
  /\ timer = "unset" => finalTimeoutMs = 0

\* C18 witness: a source of 30 MB run with an override of 2 minutes, the
\* timeout has fired after 2 minutes and the run has settled
C18_Witness ==
  /\ timeoutMinutes = <<2>>
  /\ swfSize = 120
  /\ stepEnd = "timeout"
  /\ Settled
  /\ finalTimeoutMs = 2 * 60000

\* C14: every value detectSWFFrameRate resolves with is an integer from 1
\* to 120
C14_DetectedRateFrom1To120 ==
  detectResult # << >> => detectResult[1] \in 1..120

\* C15: the promise of detectSWFFrameRate is resolved in every run and is
\* never rejected; it is resolved with 30 when FFmpeg is not available,
\* when the process errors, when the 30 seconds pass, and when the text
\* gathered at the close event has no fps and no tbr marker with a value in
\* range; a process still running when the 30 seconds pass is sent the
\* signal; a value once resolved is never replaced, also by a later close
C15_DetectAlwaysResolves ==
  /\ <>(detectOutcome = "resolved")
  /\ [](detectOutcome # "rejected")
  /\ [](detectCause \in {"unavailable", "error", "timeout"}
         => detectResult = <<30>>)
  /\ []((/\ detectCause = "close"
         /\ LET fpsMatch == MatchMarker(stderrData, Fps)
            IN fpsMatch = << >> \/ ~InRange(ParseFloat(fpsMatch))
         /\ LET tbrMatch == MatchMarker(stderrData, Tbr)
            IN tbrMatch = << >> \/ ~InRange(ParseFloat(tbrMatch)))
         => detectResult = <<30>>)
  /\ []((timeoutId = "fired" /\ ffmpegProcess = "running") => detectKilled)
  /\ [][detectResult # << >> => detectResult' = detectResult]_vars

\* C15 witness: the 30 seconds passed with "25 fps" already gathered, the
\* process was killed, its close event came afterwards, and the value is 30
C15_Witness ==
  /\ detectCause = "timeout"
  /\ detectKilled
  /\ ffmpegProcess = "closed"
  /\ stderrData = Report25
  /\ detectResult = <<30>>

\* C19: with keepExtracted false, once convertSWF has settled the temporary
\* directory does not exist
C19_TempDirGoneWhenSettled ==
  (convertPc = "settled" /\ ~keepExtracted) => "out" \notin dirs

\* C13: the rate handed to the assembly is the caller's framerate when that
\* is not 30 and the detected rate when it is 30
C13_AssembledAtChosenRate ==
  assembledAt # << >> =>
    assembledAt[1] = IF framerate # 30 THEN framerate
                     ELSE detectedFrameRate[1]

\* C13 witness: the caller asked for 24, 25 was detected, and the video was
\* assembled at 24
C13_Witness ==
  /\ framerate = 24
  /\ detectedFrameRate = <<25>>
  /\ assembledAt = <<24>>
  /\ convertOutcome = "resolved"

\* C20: with keepExtracted true, no step of a conversion removes the
\* temporary directory, a directory under it or a file under it
C20_KeepExtractedDeletesNothing ==
  [][keepExtracted =>
       /\ dirs \subseteq dirs'
       /\ numberedDirs \subseteq numberedDirs'
       /\ framesSub \subseteq framesSub'
       /\ framesRoot \subseteq framesRoot'
       /\ \A a \in AudioNames : sounds[a] # "absent" => sounds'[a] # "absent"]_vars

\* C20 witness: the assembly failed, convertSWF has rejected, and the
\* temporary directory still holds its frames
C20_Witness ==
  /\ keepExtracted
  /\ convertPc = "settled"
  /\ convertError = "assembly"
  /\ convertOutcome = "rejected"
  /\ "out" \in dirs
  /\ framesSub # {}

\* C23: for a source file that does not exist, extractSWF rejects and no
\* decompiler process is launched, whatever the timeout override and
\* whatever the output directory held before
C23_MissingSourceRejects ==
  (~swfExists /\ Settled) => (outcome = "rejected" /\ proc = "null")

\* C27: extractAudioWithFFmpeg is invoked only when the decompiler process
\* of the request is not running any more, and the frame check is made only
\* once the fallback has settled
C27_FallbackAfterDecompilerExit ==
  [][/\ (fallback = "none" /\ fallback' # "none") => proc # "running"
     /\ (hasFrames = "unset" /\ hasFrames' # "unset")
          => fallback' \in {"resolved", "rejected"}]_vars

\* C28: a decompiler run delivers one completion signal: a run whose step
\* was ended by onError is not also closed by onClose
C28_OneCompletionSignal ==
  ~(stepEnd = "error" /\ proc = "closed")

\* C21: a manifest without frames starts no encoder: convertSWF goes from
\* the analysis to its rejection without calling convertFramesToMP4, and
\* convertFramesToMP4, when it is called, rejects before the write test and
\* before a command is run
C21_NoFramesNoEncoder ==
  (pc = "analyzed" /\ manifest.frameCount = 0) =>
    /\ ~probed
    /\ command = << >>
    /\ assembleOutcome \in {"idle", "rejected"}
    /\ convertPc # "idle" =>
         /\ assembleOutcome = "idle"
         /\ convertPc \in {"extract", "settled"}
         /\ convertPc = "settled" =>
              convertOutcome = "rejected" /\ convertError = "noFrames"

\* C21 witness: convertFramesToMP4 was called with a manifest without
\* frames and has rejected
C21_Witness ==
  /\ pc = "analyzed"
  /\ manifest.frameCount = 0
  /\ assembledAt # << >>
  /\ assembleOutcome = "rejected"

\* C22: the command that is run has the frame pattern as first input; it
\* has a second input and an audio codec exactly when the manifest has an
\* audio file, the second input is then the first audio file of the
\* manifest; and a manifest with frames whose output directory is writable
\* gets its command with or without audio
C22_FirstAudioFileIffAny ==
  /\ command # << >> =>
       /\ Len(command[1].inputs) = IF Len(manifest.audioFiles) > 0 THEN 2 ELSE 1
       /\ (command[1].audioCodec # << >>) <=> (Len(manifest.audioFiles) > 0)
       /\ Len(manifest.audioFiles) > 0 =>
            command[1].inputs[2] = manifest.audioFiles[1]
  /\ (probed /\ assembleOutcome \in {"pending", "resolved"}) => command # << >>

\* C22 witness: of two audio files the one listed first, 1.wav, is the
\* second input of the command
C22_Witness ==
  /\ manifest.audioFiles = <<Join(SoundsDir, WavAudio), Join(SoundsDir, FallbackAudio)>>
  /\ command # << >>
  /\ command[1].inputs[2] = Join(SoundsDir, WavAudio)
  /\ command[1].audioCodec = <<"aac">>

\* C24 as stated: the steps of one convertSWF call follow each other in the
\* order detection, extraction, fallback, reconciliation, assembly, cleanup
\* and none is entered again; and once a step other than the fallback has
\* failed (the decompiler step ended by an error or by the timeout,
\* extractSWF rejected, the manifest empty, the assembly rejected) no later
\* step but the cleanup is run and convertSWF rejects
C24_StepsInOrderFailureSkips ==
  /\ [][Stage' >= Stage]_vars
  /\ [](convertPc # "idle" =>
          /\ stepEnd \in {"error", "timeout"} =>
               /\ fallback = "none"
               /\ manifest = NoManifest
               /\ assembleOutcome = "idle"
               /\ convertOutcome # "resolved"
          /\ (pc = "done" /\ outcome = "rejected") =>
               /\ manifest = NoManifest
               /\ assembleOutcome = "idle"
               /\ convertOutcome # "resolved"
          /\ (pc = "analyzed" /\ manifest.frameCount = 0) =>
               /\ assembleOutcome = "idle"
               /\ convertOutcome # "resolved"
          /\ assembleOutcome = "rejected" => convertOutcome # "resolved")

\* C24 amended: the same order; a rejection of extractSWF, an empty manifest
\* and a rejection of the assembly skip every later step but the cleanup and
\* make convertSWF reject, and so does the timeout of the decompiler step;
\* a decompiler step ended by an error is followed by the fallback and the
\* frame check all the same
C24_StepsInOrderRejectionSkips ==
  /\ [][Stage' >= Stage]_vars
  /\ [](convertPc # "idle" =>
          /\ stepEnd = "timeout" =>
               /\ fallback = "none"
               /\ outcome = "rejected"
          /\ (stepEnd = "error" /\ pc \in {"done", "analyzed"}) =>
               fallback \in {"resolved", "rejected"} /\ hasFrames # "unset"
          /\ (pc = "done" /\ outcome = "rejected") =>
               /\ manifest = NoManifest
               /\ assembleOutcome = "idle"
               /\ convertOutcome # "resolved"
          /\ (pc = "analyzed" /\ manifest.frameCount = 0) =>
               /\ assembleOutcome = "idle"
               /\ convertOutcome # "resolved"
          /\ assembleOutcome = "rejected" => convertOutcome # "resolved"
          /\ (convertPc = "settled" /\ convertOutcome = "resolved") =>
               /\ outcome = "resolved"
               /\ manifest.frameCount > 0
               /\ assembleOutcome = "resolved")

\* C24 witness: the decompiler timed out, extractSWF rejected, no fallback,
\* no manifest and no assembly followed, the cleanup removed the temporary
\* directory and convertSWF rejected
C24_Witness ==
  /\ stepEnd = "timeout"
  /\ fallback = "none"
  /\ manifest = NoManifest
  /\ assembleOutcome = "idle"
  /\ ~keepExtracted
  /\ "out" \notin dirs
  /\ convertPc = "settled"
  /\ convertOutcome = "rejected"
  /\ convertError = "extraction"

\* C30: java is spawned with -jar and the archive, then -select 1-N, which
\* is there only when a frame cap is given and always when the cap is not
\* 0, then -export frame,sound, then the output directory, then the source
\* file; and the output directory, frames/ and sounds/ exist at the spawn
C30_ArgumentsInOrderDirsFirst ==
  [][(proc = "null" /\ proc' # "null") =>
       /\ {"out", "frames", "sounds"} \subseteq dirs'
       /\ LET n == Len(spawnArgs')
              selected == n = 8
          IN /\ n \in {6, 8}
             /\ SubSeq(spawnArgs', 1, 2) = <<<<"-jar">>, <<"ffdec.jar">>>>
             /\ selected =>
                  /\ testFrames # << >>
                  /\ spawnArgs'[3] = <<"-select">>
                  /\ spawnArgs'[4] = <<"1", "-">> \o ToDigits(testFrames[1])
             /\ (testFrames # << >> /\ testFrames[1] # 0) => selected
             /\ SubSeq(spawnArgs', n - 3, n)
                  = <<<<"-export">>, <<"frame,sound">>, OutputDir, <<"source.swf">>>>]_vars

\* C30 witness: with a cap of 2 frames java runs with -select 1-2 before
\* -export, in an output tree that was made for it
C30_Witness ==
  /\ testFrames = <<2>>
  /\ proc = "running"
  /\ {"out", "frames", "sounds"} \subseteq dirs
  /\ spawnArgs = <<<<"-jar">>, <<"ffdec.jar">>, <<"-select">>, <<"1", "-", "2">>,
                   <<"-export">>, <<"frame,sound">>, OutputDir, <<"source.swf">>>>

\* C29: a stderr stream that contains a known fatal message, however it
\* was cut into chunks, has reached the fatal-error callback: extractSWF
\* never goes on waiting for the decompiler after such a stream
C29_FatalHoweverSplit ==
  (streamFatal /\ pc = "jpexs") => fatalSeen

\* C25: the calls of a batch run are the discovered files in their order,
\* each once, a call being made only when every earlier call has settled;
\* successful and failed count the resolved and the rejected calls and the
\* recorded errors are those of the rejected calls, one each, in order;
\* a command that ends after a call has called every file, so that
\* successful + failed is the number of files
C25_EveryFileOnceCounted ==
  LET n == Len(calls)
      rejected == {i \in 1..n : calls[i].outcome = "rejected"}
      resolved == {i \in 1..n : calls[i].outcome = "resolved"}
      before(i) == Cardinality({j \in rejected : j < i})
  IN /\ n <= Len(swfFiles)
     /\ \A i \in 1..n : calls[i].file = swfFiles[i]
     /\ \A i, j \in 1..Len(swfFiles) : swfFiles[i] = swfFiles[j] => i = j
     /\ \A i \in 1..(n - 1) : calls[i].outcome # "pending"
     /\ results.successful = Cardinality(resolved)
     /\ results.failed = Cardinality(rejected)
     /\ Len(results.errors) = results.failed
     /\ \A i \in rejected :
          results.errors[before(i) + 1].file = <<swfFiles[i].name, swfFiles[i].ext>>
     /\ batchPc = "await" => n > 0 /\ calls[n].outcome = "pending"
     /\ batchPc = "ended" =>
          /\ n \in {0, Len(swfFiles)}
          /\ \A i \in 1..n : calls[i].outcome # "pending"
          /\ results.successful + results.failed = Len(swfFiles)

\* C25 witness: a command over three files has ended; the first file
\* failed, the second succeeded, the third failed
C25_Witness ==
  /\ batchPc = "ended"
  /\ Len(swfFiles) = 3
  /\ [i \in 1..3 |-> calls[i].outcome] = <<"rejected", "resolved", "rejected">>
  /\ results.successful = 1
  /\ results.failed = 2
  /\ Len(results.errors) = 2

\* C26: a command that has run (it was not a help request) ends with a
\* status other than 0 exactly when no call resolved: a missing tool, a scan
\* that throws or finds nothing, or every file failed
C26_NonZeroIffNoSuccess ==
  (batchPc = "ended" /\ ~batchHelp) =>
    /\ exitCode # << >>
    /\ exitCode # <<0>> <=> \A i \in 1..Len(calls) : calls[i].outcome # "resolved"

\* C26 witness: a command has ended with status 0 although a file failed,
\* because another succeeded
C26_Witness ==
  /\ batchPc = "ended"
  /\ ~batchHelp
  /\ exitCode = <<0>>
  /\ \E i \in 1..Len(calls) : calls[i].outcome = "rejected"
  /\ \E i \in 1..Len(calls) : calls[i].outcome = "resolved"

\* C31: in the frame list of the manifest, of any two files whose names
\* contain digits the one with the smaller first run of digits comes first,
\* also when files without digits are in the layout
C31_DigitNamesInNumericOrder ==
  pc = "analyzed" =>
    \A i, j \in 1..Len(manifest.frameFiles) :
      LET a == FirstDigitRun(Basename(manifest.frameFiles[i]))
          b == FirstDigitRun(Basename(manifest.frameFiles[j]))
      IN (i < j /\ a # << >> /\ b # << >>) => ParseInt(a) <= ParseInt(b)

\* C32: removeDirectory removes a subdirectory of a level only when the
\* files listed for that level are removed, and removes a directory only
\* when it holds nothing
C32_FilesBeforeSubdirectories ==
  [][/\ \A d \in {"frames", "sounds"} :
          d \in dirs \ dirs' => rootTodo.files = {} /\ IsEmptyDir(d)
     /\ (numberedDirs # {} /\ numberedDirs' = {}) => subTodo.files = {}
     /\ "out" \in dirs \ dirs' => IsEmptyDir("root")]_vars

\* C32, amended: removeDirectory removes a directory only when it holds
\* nothing: frames/ without files and numbered directories, sounds/ without
\* files, tempDir without files and subdirectories
C32_DirectoryAfterItsEntries ==
  [][/\ \A d \in {"frames", "sounds"} : d \in dirs \ dirs' => IsEmptyDir(d)
     /\ "out" \in dirs \ dirs' => IsEmptyDir("root")]_vars

\* C32 witness: removeDirectory has removed frames/ and sounds/ and is in
\* the loop of tempDir, whose listed files are still there
C32_Witness ==
  /\ convertPc = "cleanup"
  /\ cleanDir = "root"
  /\ dirs = {"out"}
  /\ rootTodo.files # {}
  /\ rootTodo.files \subseteq framesRoot

\* C33: while the decompiler process runs, the timeout of extractSWF is
\* armed or a signal has been sent to the process
C33_RunningProcessSupervised ==
  proc = "running" => (timer = "armed" \/ signals # {})

\* C34: while extractSWF waits for the decompiler its timeout is armed; the
\* wait always ends, whatever the process does; it ends by close, by error
\* or by the timer, and it is the timer, and nothing else, that ends it as
\* a timeout, the timer being cleared when the wait ends otherwise
C34_DecompilerStepEnds ==
  /\ [](pc = "jpexs" => timer = "armed")
  /\ (pc = "jpexs") ~> (pc # "jpexs")
  /\ [][(pc = "jpexs" /\ pc' # "jpexs") =>
          /\ stepEnd' \in {"close", "error", "timeout"}
          /\ stepEnd' = "timeout" <=> timer' = "fired"
          /\ stepEnd' # "timeout" => timer' = "cleared"]_vars

\* C34 witness: the wait for a decompiler that ignores SIGTERM and is still
\* running has ended by the timer
C34_Witness ==
  /\ stepEnd = "timeout"
  /\ pc = "done"
  /\ proc = "running"
  /\ ignoresTerm

\* C35: two calls of convertSWF that a convert command makes for different
\* source files have different temporary directories
C35_DistinctTempDirs ==
  batchCommand = "convert" =>
    \A i, j \in 1..Len(calls) :
      calls[i].file # calls[j].file => calls[i].dir # calls[j].dir

\* C36: on the tree that the frame check of extractSWF saw, the manifest
\* holds frames exactly when the check found frames, and the manifest of an
\* extraction that resolved only because frames were on disk is not empty
C36_FrameCheckAgreesWithManifest ==
  pc = "analyzed" =>
    /\ hasFrames = "yes" <=> manifest.frameCount > 0
    /\ ~jpexsSucceeded => manifest.frameCount > 0

\* C36 witness: the decompiler ended by an error, the only frame is 10.PNG
\* in the output root, and the manifest holds it
C36_Witness ==
  /\ pc = "analyzed"
  /\ ~jpexsSucceeded
  /\ framesSub = {}
  /\ framesRoot = {UpperPng, NotAFrame}
  /\ hasFrames = "yes"
  /\ manifest.frameFiles = <<Join(OutputDir, UpperPng)>>

\* C37: no step takes away or changes what the decompiler wrote into a file
\* of sounds/, and the only file of sounds/ that comes to hold something
\* not written by the decompiler is 0.mp3
C37_FallbackKeepsDecompilerAudio ==
  [][\A a \in AudioNames :
       /\ sounds[a] = "jpexs" => sounds'[a] = "jpexs"
       /\ (sounds'[a] # sounds[a] /\ sounds'[a] # "jpexs") => a = FallbackAudio]_vars

====
